---------------------------- MODULE Spec2Model ----------------------------
(***************************************************************************)
(* Model of the saga TransactionOrchestrator                               *)
(* (src/src/orchestrator/transaction-orchestrator.ts, lines 15-457),       *)
(* TransactionStep and DistributedTransaction (src/unnamed/part_000).      *)
(*                                                                         *)
(* A transaction is built from a nested step definition, resume() drives   *)
(* it: every scheduling pass (checkAllSteps) selects the eligible steps,   *)
(* executeNext dispatches them to the handler, the handler promises settle *)
(* in any order, and the driver re-enters executeNext once all of them     *)
(* have settled.                                                           *)
(***************************************************************************)
EXTENDS Integers, Sequences, FiniteSets, TLC

(***************************************************************************)
(* Enumerations (TransactionState, TransactionStepStatus,                  *)
(* TransactionHandlerType) and orchestrator constants.                     *)
(***************************************************************************)
ROOT_STEP == "_root"
DEFAULT_RETRIES == 3

NOT_STARTED == "not_started"
INVOKING == "invoking"
WAITING_TO_COMPENSATE == "waiting_to_compensate"
COMPENSATING == "compensating"
DONE == "done"
REVERTED == "reverted"
FAILED == "failed"
DORMANT == "dormant"
SKIPPED == "skipped"

IDLE == "idle"
OK == "ok"
WAITING == "waiting_response"
TEMPORARY_FAILURE == "temp_failure"
PERMANENT_FAILURE == "permanent_failure"

INVOKE == "invoke"
COMPENSATE == "compensate"

\* maxRetries?: number -- the option left out of the definition
Undefined == -1
\* response of a step whose handler result was never saved
NoResponse == <<"undefined">>

(***************************************************************************)
(* Step definitions (TransactionStepsDefinition).  `next` is either absent *)
(* (no items), a single definition or an array of definitions; in every    *)
(* object the key `action` precedes the key `next`, as in all definitions  *)
(* of the repository.  forwardResponse is "unset", "true" or "false".      *)
(* `async` is not a key of TransactionStepsDefinition: a definition that   *)
(* carries it is copied into the step like any other key and read nowhere. *)
(***************************************************************************)
NoNext == [isArray |-> FALSE, items |-> <<>>]
One(n) == [isArray |-> FALSE, items |-> <<n>>]
Arr(ns) == [isArray |-> TRUE, items |-> ns]

DefaultOpts ==
  [maxRetries |-> Undefined, noWait |-> FALSE, noCompensation |-> FALSE,
   continueOnPermanentFailure |-> FALSE, forwardResponse |-> "unset",
   async |-> FALSE]

Node(a, o, nx) ==
  [action |-> a, maxRetries |-> o.maxRetries, noWait |-> o.noWait,
   noCompensation |-> o.noCompensation,
   continueOnPermanentFailure |-> o.continueOnPermanentFailure,
   forwardResponse |-> o.forwardResponse, async |-> o.async, next |-> nx]

\* the definition object handed to the constructor: it has no action
RootDef(nx) == Node("", DefaultOpts, nx)

(***************************************************************************)
(* TransactionStep                                                         *)
(***************************************************************************)
\* definitionCopy: the definition object without its `next`
DefinitionCopy(obj) ==
  [action |-> obj.action, maxRetries |-> obj.maxRetries, noWait |-> obj.noWait,
   noCompensation |-> obj.noCompensation,
   continueOnPermanentFailure |-> obj.continueOnPermanentFailure,
   forwardResponse |-> obj.forwardResponse, async |-> obj.async]

NewStep(id, obj) ==
  [id |-> id,
   depth |-> Len(id) - 1,
   definition |-> DefinitionCopy(obj),
   forwardResponse |-> (obj.forwardResponse # "false"),
   invoke |-> [state |-> NOT_STARTED, status |-> IDLE],
   compensate |-> [state |-> DORMANT, status |-> IDLE],
   attempts |-> 0,
   failures |-> 0,
   lastAttempt |-> "null",
   next |-> <<>>,
   stepFailed |-> FALSE,
   response |-> NoResponse]

\* the root entry is the bare object {id, next}: every other attribute is
\* undefined, which reads as falsy (forwardResponse) or as NaN (depth); the
\* unused attributes are filled with the values of a fresh step
RootStep ==
  [NewStep(<<ROOT_STEP>>, RootDef(NoNext)) EXCEPT !.forwardResponse = FALSE]

isCompensating(step) == step.stepFailed

getStates(step) == IF isCompensating(step) THEN step.compensate ELSE step.invoke

\* a switch to the compensate phase that keeps the failures of the invoke phase
beginCompensation_KeepFailures(step) ==
  IF isCompensating(step) THEN step
  ELSE [step EXCEPT !.stepFailed = TRUE, !.attempts = 0, !.lastAttempt = "null"]

beginCompensation(step) ==
  IF isCompensating(step) THEN step
  ELSE [step EXCEPT !.stepFailed = TRUE, !.attempts = 0, !.failures = 0,
                    !.lastAttempt = "null"]

AllowedStates(from) ==
  CASE from = DORMANT -> {NOT_STARTED}
    [] from = NOT_STARTED -> {INVOKING, COMPENSATING, FAILED, SKIPPED}
    [] from = INVOKING -> {FAILED, DONE}
    [] from = COMPENSATING -> {REVERTED, FAILED}
    [] from = DONE -> {COMPENSATING}
    [] OTHER -> {}

AllowedStatuses(from) ==
  CASE from = WAITING -> {OK, TEMPORARY_FAILURE, PERMANENT_FAILURE}
    [] from = TEMPORARY_FAILURE -> {IDLE, PERMANENT_FAILURE}
    [] from = PERMANENT_FAILURE -> {IDLE}
    [] OTHER -> {}

\* changeState / changeStatus either update the active pair or throw; the
\* result is [ok, step], ok = FALSE standing for the thrown Error
\* a write that always goes to the invoke pair
SetActive_Invoke(step, field, value) ==
  [step EXCEPT !.invoke = [@ EXCEPT ![field] = value]]

SetActive(step, field, value) ==
  IF isCompensating(step)
  THEN [step EXCEPT !.compensate = [@ EXCEPT ![field] = value]]
  ELSE [step EXCEPT !.invoke = [@ EXCEPT ![field] = value]]

\* a change of state that checks nothing
changeState_Unchecked(step, toState) ==
  [ok |-> TRUE, step |-> SetActive(step, "state", toState)]

changeState(step, toState) ==
  LET curState == getStates(step)
  IN IF curState.state = toState \/ toState \in AllowedStates(curState.state)
     THEN [ok |-> TRUE, step |-> SetActive(step, "state", toState)]
     ELSE [ok |-> FALSE, step |-> step]

changeStatus(step, toStatus) ==
  LET curState == getStates(step)
  IN IF \/ curState.status = toStatus
        \/ toStatus = WAITING
        \/ toStatus \in AllowedStatuses(curState.status)
     THEN [ok |-> TRUE, step |-> SetActive(step, "status", toStatus)]
     ELSE [ok |-> FALSE, step |-> step]

saveResponse(step, response) == [step EXCEPT !.response = response]

\* an eligibility that forgets the state of the flow
canInvoke_AnyFlowState(step, flowState) ==
  LET cur == getStates(step)
  IN \/ /\ ~isCompensating(step)
        /\ cur.state = NOT_STARTED
     \/ cur.status = TEMPORARY_FAILURE

canInvoke(step, flowState) ==
  LET cur == getStates(step)
  IN \/ /\ ~isCompensating(step)
        /\ cur.state = NOT_STARTED
        /\ flowState = INVOKING
     \/ cur.status = TEMPORARY_FAILURE

\* an eligibility for compensation that does not ask for a flagged step
canCompensate_Unflagged(step, flowState) ==
  /\ getStates(step).state = NOT_STARTED
  /\ flowState = COMPENSATING

canCompensate(step, flowState) ==
  /\ isCompensating(step)
  /\ getStates(step).state = NOT_STARTED
  /\ flowState = COMPENSATING

(***************************************************************************)
(* buildSteps: breadth-first walk of the definition with a queue of        *)
(* {obj, level}.  An array is an object whose keys are its indexes, so it  *)
(* takes one more queue round than a single `next` object.                 *)
(***************************************************************************)
\* a stack in place of the queue
Enqueue_Front(queue, item) == <<item>> \o queue

\* queue.push({ obj, level })
Enqueue(queue, item) == Append(queue, item)

\* for (const key in obj) over an array: every element is pushed in turn
RECURSIVE EnqueueAll(_, _, _, _)
EnqueueAll(queue, items, level, i) ==
  IF i > Len(items) THEN queue
  ELSE EnqueueAll(Enqueue(queue, [isArray |-> FALSE, items |-> <<items[i]>>,
                                  level |-> level]),
                  items, level, i + 1)

\* a check of the names that never finds one
AlreadyDefined_Never(actionNames, action) == FALSE

\* actionNames.has(obj.action)
AlreadyDefined(actionNames, action) == action \in actionNames

RECURSIVE BuildQueue(_, _)
BuildQueue(queue, st) ==
  IF queue = <<>> \/ st.error THEN st
  ELSE
    LET item == Head(queue)
        rest == Tail(queue)
    IN IF item.isArray
       THEN BuildQueue(EnqueueAll(rest, item.items, item.level, 1), st)
       ELSE
         LET obj == item.items[1]
             hasAction == obj.action # ""
             level == IF hasAction THEN Append(item.level, obj.action)
                      ELSE item.level
             parent == item.level
             pushed == IF obj.next.items = <<>> /\ ~obj.next.isArray
                       THEN rest
                       ELSE Enqueue(rest, [isArray |-> obj.next.isArray,
                                           items |-> obj.next.items,
                                           level |-> level])
         IN IF ~hasAction THEN BuildQueue(pushed, st)
            ELSE IF AlreadyDefined(st.actionNames, obj.action)
            THEN [st EXCEPT !.error = TRUE]
            ELSE BuildQueue(pushed,
                   [st EXCEPT
                      !.actionNames = @ \cup {obj.action},
                      !.keys = Append(@, level),
                      !.states = (level :> NewStep(level, obj)) @@
                                 [@ EXCEPT ![parent].next = Append(@, level)]])

buildSteps(definition) ==
  BuildQueue(<<[isArray |-> FALSE, items |-> <<definition>>,
                level |-> <<ROOT_STEP>>]>>,
             [states |-> (<<ROOT_STEP>> :> RootStep),
              keys |-> <<<<ROOT_STEP>>>>,
              actionNames |-> {},
              error |-> FALSE])

\* this.id, and the id of another orchestrator
OrchestratorId == "model"
OtherOrchestratorId == "other"

createTransactionFlow(definition) ==
  LET built == buildSteps(definition)
  IN [transactionModelId |-> OrchestratorId,
      state |-> NOT_STARTED,
      steps |-> built.states,
      keys |-> built.keys,
      hasFailedSteps |-> FALSE,
      hasSkippedSteps |-> FALSE]

(***************************************************************************)
(* Step orderings.  Array.prototype.sort is stable; the root has no depth  *)
(* (the comparator yields NaN, read as 0, for it) and keeps its first      *)
(* place in getInvokeSteps, and counts as depth 0 in getCompensationSteps. *)
(***************************************************************************)
RECURSIVE SelectDepth(_, _, _)
SelectDepth(keys, steps, d) ==
  IF keys = <<>> THEN <<>>
  ELSE IF steps[Head(keys)].depth = d
       THEN <<Head(keys)>> \o SelectDepth(Tail(keys), steps, d)
       ELSE SelectDepth(Tail(keys), steps, d)

MaxDepthOf(flow) ==
  CHOOSE d \in 0..Len(flow.keys) :
    /\ \E i \in 1..Len(flow.keys) : flow.steps[flow.keys[i]].depth = d
    /\ \A i \in 1..Len(flow.keys) : flow.steps[flow.keys[i]].depth <= d

RECURSIVE AscendingFrom(_, _, _)
AscendingFrom(flow, d, maxd) ==
  IF d > maxd THEN <<>>
  ELSE SelectDepth(flow.keys, flow.steps, d) \o AscendingFrom(flow, d + 1, maxd)

RECURSIVE DescendingFrom(_, _)
DescendingFrom(flow, d) ==
  IF d < 0 THEN <<>>
  ELSE SelectDepth(flow.keys, flow.steps, d) \o DescendingFrom(flow, d - 1)

getInvokeSteps(flow) == AscendingFrom(flow, 0, MaxDepthOf(flow))

getCompensationSteps(flow) == DescendingFrom(flow, MaxDepthOf(flow))

(***************************************************************************)
(* Eligibility                                                             *)
(***************************************************************************)
Front(id) == SubSeq(id, 1, Len(id) - 1)

getPreviousStep(flow, step) == flow.steps[Front(step.id)]

canMoveBackward(flow, step) ==
  \A i \in 1..Len(step.next) :
     flow.steps[step.next[i]].compensate.state \in {DONE, REVERTED, FAILED, DORMANT}

\* a forward rule that ignores noWait
canMoveForward_AlwaysWait(flow, previousStep) ==
  LET siblings == getPreviousStep(flow, previousStep).next
  IN \A i \in 1..Len(siblings) :
        flow.steps[siblings[i]].invoke.state \in {DONE, FAILED, SKIPPED}

canMoveForward(flow, previousStep) ==
  LET siblings == getPreviousStep(flow, previousStep).next
  IN \/ previousStep.definition.noWait
     \/ \A i \in 1..Len(siblings) :
           flow.steps[siblings[i]].invoke.state \in {DONE, FAILED, SKIPPED}

\* a gate that is open to every step while the flow moves forward
canContinue_ForwardOpen(flow, step) ==
  IF flow.state = COMPENSATING THEN canMoveBackward(flow, step) ELSE TRUE

canContinue(flow, step) ==
  IF flow.state = COMPENSATING
  THEN canMoveBackward(flow, step)
  ELSE LET previous == getPreviousStep(flow, step)
       IN IF previous.id = <<ROOT_STEP>> THEN TRUE
          ELSE canMoveForward(flow, previous)

(***************************************************************************)
(* flagStepsToRevert: the result is [ok, flow]; ok = FALSE when a          *)
(* changeState threw, the steps flagged before it keeping their change.    *)
(***************************************************************************)
\* a flagging that ignores noCompensation
ShouldRevert_Everything(stepDef) ==
  LET curState == getStates(stepDef)
  IN \/ curState.state = DONE
     \/ curState.status = PERMANENT_FAILURE

\* a flagging that forgets the step that failed
ShouldRevert_DoneOnly(stepDef) ==
  getStates(stepDef).state = DONE /\ ~stepDef.definition.noCompensation

ShouldRevert(stepDef) ==
  LET curState == getStates(stepDef)
  IN /\ \/ curState.state = DONE
        \/ curState.status = PERMANENT_FAILURE
     /\ ~stepDef.definition.noCompensation

RECURSIVE FlagFrom(_, _)
FlagFrom(flow, i) ==
  IF i > Len(flow.keys) THEN [ok |-> TRUE, flow |-> flow]
  ELSE
    LET step == flow.keys[i]
        stepDef == flow.steps[step]
    IN IF step = <<ROOT_STEP>> \/ ~ShouldRevert(stepDef)
       THEN FlagFrom(flow, i + 1)
       ELSE LET r == changeState(beginCompensation(stepDef), NOT_STARTED)
                flagged == [flow EXCEPT !.steps[step] = r.step]
            IN IF r.ok THEN FlagFrom(flagged, i + 1)
               ELSE [ok |-> FALSE,
                     flow |-> [flow EXCEPT !.steps[step] = beginCompensation(stepDef)]]

flagStepsToRevert(flow) == FlagFrom(flow, 1)

(***************************************************************************)
(* checkAllSteps: one scheduling pass.  The loop reads the flow and only   *)
(* fills its accumulators, so each accumulator is a selection over the     *)
(* ordering.  Result: [ok, flow, next, total, remaining, completed].       *)
(***************************************************************************)
RECURSIVE SelectIds(_, _)
SelectIds(ids, S) ==
  IF ids = <<>> THEN <<>>
  ELSE IF Head(ids) \in S THEN <<Head(ids)>> \o SelectIds(Tail(ids), S)
       ELSE SelectIds(Tail(ids), S)

Range(seq) == {seq[i] : i \in 1..Len(seq)}

\* a pass that finalizes with one step still open
AllCompleted_ButOne(completedSteps, totalSteps) == completedSteps >= totalSteps - 1

\* else if (completedSteps === totalSteps)
AllCompleted(completedSteps, totalSteps) == completedSteps = totalSteps

\* a finalization that looks at the reverted steps first
FinalState_RevertedFirst(hasFailed, hasReverted) ==
  IF hasReverted THEN REVERTED ELSE IF hasFailed THEN FAILED ELSE DONE

\* if (hasFailed) FAILED else hasReverted ? REVERTED : DONE
FinalState(hasFailed, hasReverted) ==
  IF hasFailed THEN FAILED ELSE IF hasReverted THEN REVERTED ELSE DONE

\* a pass that takes no failure for an ignored one
IsIgnoredFailure_Never(stepDef) == FALSE

\* curState.state === FAILED && stepDef.definition.continueOnPermanentFailure
IsIgnoredFailure(stepDef) ==
  /\ getStates(stepDef).state = FAILED
  /\ stepDef.definition.continueOnPermanentFailure

\* compensation that starts while a handler call is still awaited
StartsCompensation_WhileWaiting(flowState, nextSteps, hasWaiting) ==
  flowState = WAITING_TO_COMPENSATE /\ nextSteps = <<>>

StartsCompensation(flowState, nextSteps, hasWaiting) ==
  flowState = WAITING_TO_COMPENSATE /\ nextSteps = <<>> /\ ~hasWaiting

RECURSIVE checkAllSteps(_)
checkAllSteps(flow) ==
  LET allSteps == IF flow.state = COMPENSATING
                  THEN getCompensationSteps(flow)
                  ELSE getInvokeSteps(flow)
      visited == {s \in Range(allSteps) :
                    s # <<ROOT_STEP>> /\ canContinue(flow, flow.steps[s])}
      waiting == {s \in visited : getStates(flow.steps[s]).status = WAITING}
      eligible == {s \in visited \ waiting :
                     \/ canInvoke(flow.steps[s], flow.state)
                     \/ canCompensate(flow.steps[s], flow.state)}
      completed == (visited \ waiting) \ eligible
      hasWaiting == waiting # {}
      nextSteps == SelectIds(allSteps, eligible)
      completedSteps == Cardinality(completed)
      hasSkipped == \E s \in completed : getStates(flow.steps[s]).state = SKIPPED
      hasReverted == \E s \in completed : getStates(flow.steps[s]).state = REVERTED
      hasIgnoredFailure == \E s \in completed : IsIgnoredFailure(flow.steps[s])
      hasFailed ==
        \E s \in completed : /\ getStates(flow.steps[s]).state = FAILED
                             /\ ~flow.steps[s].definition.continueOnPermanentFailure
      totalSteps == Len(allSteps) - 1
      result(f) == [ok |-> TRUE, flow |-> f, next |-> nextSteps,
                    total |-> totalSteps,
                    remaining |-> totalSteps - completedSteps,
                    completed |-> completedSteps]
  IN IF StartsCompensation(flow.state, nextSteps, hasWaiting)
     THEN LET flagged == flagStepsToRevert([flow EXCEPT !.state = COMPENSATING])
          IN IF flagged.ok THEN checkAllSteps(flagged.flow)
             ELSE [ok |-> FALSE, flow |-> flagged.flow, next |-> <<>>,
                   total |-> totalSteps, remaining |-> totalSteps - completedSteps,
                   completed |-> completedSteps]
     ELSE IF AllCompleted(completedSteps, totalSteps)
     THEN result([flow EXCEPT
                    !.hasSkippedSteps = @ \/ hasSkipped,
                    !.hasFailedSteps = @ \/ hasIgnoredFailure,
                    !.state = FinalState(hasFailed, hasReverted)])
     ELSE result(flow)

(***************************************************************************)
(* Step outcome rules.  Both return [ok, ...]; ok = FALSE stands for an    *)
(* Error thrown by changeState/changeStatus, everything assigned before    *)
(* the throw being kept.                                                   *)
(***************************************************************************)
\* a success that records the status and forgets the state
setStepSuccess_StatusOnly(step, response) ==
  changeStatus(IF step.forwardResponse THEN saveResponse(step, response) ELSE step, OK)

\* a success that ends every phase as DONE
setStepSuccess_AlwaysDone(step, response) ==
  LET saved == IF step.forwardResponse THEN saveResponse(step, response) ELSE step
      r1 == changeStatus(saved, OK)
      r2 == changeState(r1.step, DONE)
  IN IF ~r1.ok THEN r1 ELSE r2

setStepSuccess(step, response) ==
  LET saved == IF step.forwardResponse THEN saveResponse(step, response) ELSE step
      r1 == changeStatus(saved, OK)
      r2 == changeState(r1.step, IF isCompensating(r1.step) THEN REVERTED ELSE DONE)
  IN IF ~r1.ok THEN r1 ELSE r2

\* an error list that keeps the last error only
addError_KeepLast(errors, action, handlerType) ==
  <<[action |-> action, handlerType |-> handlerType]>>

addError(errors, action, handlerType) ==
  Append(errors, [action |-> action, handlerType |-> handlerType])

\* for (const childStep of step.next) child.changeState(SKIPPED)
RECURSIVE SkipChildren(_, _, _)
SkipChildren(flow, children, i) ==
  IF i > Len(children) THEN [ok |-> TRUE, flow |-> flow]
  ELSE LET r == changeState(flow.steps[children[i]], SKIPPED)
       IN IF r.ok
          THEN SkipChildren([flow EXCEPT !.steps[children[i]] = r.step], children, i + 1)
          ELSE [ok |-> FALSE, flow |-> flow]

MaxRetriesOf(step) ==
  IF step.definition.maxRetries = Undefined THEN DEFAULT_RETRIES
  ELSE step.definition.maxRetries

\* a permanent failure that is never ignored
ContinuesOnFailure_Never(step) == FALSE

\* if (step.definition.continueOnPermanentFailure)
ContinuesOnFailure(step) == step.definition.continueOnPermanentFailure

\* a retry bound that is off by one
ExceedsRetries_OffByOne(failures, maxRetries) == failures >= maxRetries

\* if (step.failures > maxRetries)
ExceedsRetries(failures, maxRetries) == failures > maxRetries

\* a failure rule that does not look at the phase of the step
setStepFailure_AnyPhase(flow, errors, id, maxRetries) ==
  LET step0 == [flow.steps[id] EXCEPT !.failures = @ + 1]
      r1 == changeStatus(step0, TEMPORARY_FAILURE)
      r2 == changeState(r1.step, FAILED)
      r3 == changeStatus(r2.step, PERMANENT_FAILURE)
      withStep(st) == [flow EXCEPT !.steps[id] = st]
      thrown(f, e) == [ok |-> FALSE, flow |-> f, errors |-> e]
      logged == addError(errors, step0.definition.action,
                         IF isCompensating(step0) THEN COMPENSATE ELSE INVOKE)
  IN IF ~r1.ok THEN thrown(withStep(step0), errors)
     ELSE IF ~ExceedsRetries(r1.step.failures, maxRetries)
     THEN [ok |-> TRUE, flow |-> withStep(r1.step), errors |-> errors]
     ELSE IF ~r2.ok THEN thrown(withStep(r1.step), errors)
     ELSE IF ~r3.ok THEN thrown(withStep(r2.step), errors)
     ELSE IF ContinuesOnFailure(r3.step)
     THEN LET sk == SkipChildren(withStep(r3.step), r3.step.next, 1)
          IN [ok |-> sk.ok, flow |-> sk.flow, errors |-> logged]
     ELSE [ok |-> TRUE,
           flow |-> [withStep(r3.step) EXCEPT !.state = WAITING_TO_COMPENSATE],
           errors |-> logged]

\* a failure that leaves the step to be retried when another step has already
\* sent the flow to compensation
setStepFailure_UnlessWaiting(flow, errors, id, maxRetries) ==
  LET step0 == [flow.steps[id] EXCEPT !.failures = @ + 1]
      r1 == changeStatus(step0, TEMPORARY_FAILURE)
      r2 == changeState(r1.step, FAILED)
      r3 == changeStatus(r2.step, PERMANENT_FAILURE)
      withStep(st) == [flow EXCEPT !.steps[id] = st]
      thrown(f, e) == [ok |-> FALSE, flow |-> f, errors |-> e]
      logged == addError(errors, step0.definition.action,
                         IF isCompensating(step0) THEN COMPENSATE ELSE INVOKE)
  IN IF ~r1.ok THEN thrown(withStep(step0), errors)
     ELSE IF \/ ~ExceedsRetries(r1.step.failures, maxRetries)
             \/ flow.state = WAITING_TO_COMPENSATE
     THEN [ok |-> TRUE, flow |-> withStep(r1.step), errors |-> errors]
     ELSE IF ~r2.ok THEN thrown(withStep(r1.step), errors)
     ELSE IF ~r3.ok THEN thrown(withStep(r2.step), errors)
     ELSE IF isCompensating(r3.step)
     THEN [ok |-> TRUE, flow |-> withStep(r3.step), errors |-> logged]
     ELSE IF ContinuesOnFailure(r3.step)
     THEN LET sk == SkipChildren(withStep(r3.step), r3.step.next, 1)
          IN [ok |-> sk.ok, flow |-> sk.flow, errors |-> logged]
     ELSE [ok |-> TRUE,
           flow |-> [withStep(r3.step) EXCEPT !.state = WAITING_TO_COMPENSATE],
           errors |-> logged]

setStepFailure(flow, errors, id, maxRetries) ==
  LET step0 == [flow.steps[id] EXCEPT !.failures = @ + 1]
      r1 == changeStatus(step0, TEMPORARY_FAILURE)
      r2 == changeState(r1.step, FAILED)
      r3 == changeStatus(r2.step, PERMANENT_FAILURE)
      withStep(st) == [flow EXCEPT !.steps[id] = st]
      thrown(f, e) == [ok |-> FALSE, flow |-> f, errors |-> e]
      logged == addError(errors, step0.definition.action,
                         IF isCompensating(step0) THEN COMPENSATE ELSE INVOKE)
  IN IF ~r1.ok THEN thrown(withStep(step0), errors)
     ELSE IF ~ExceedsRetries(r1.step.failures, maxRetries)
     THEN [ok |-> TRUE, flow |-> withStep(r1.step), errors |-> errors]
     ELSE IF ~r2.ok THEN thrown(withStep(r1.step), errors)
     ELSE IF ~r3.ok THEN thrown(withStep(r2.step), errors)
     ELSE IF isCompensating(r3.step)
     THEN [ok |-> TRUE, flow |-> withStep(r3.step), errors |-> logged]
     ELSE IF ContinuesOnFailure(r3.step)
     THEN LET sk == SkipChildren(withStep(r3.step), r3.step.next, 1)
          IN [ok |-> sk.ok, flow |-> sk.flow, errors |-> logged]
     ELSE [ok |-> TRUE,
           flow |-> [withStep(r3.step) EXCEPT !.state = WAITING_TO_COMPENSATE],
           errors |-> logged]

(***************************************************************************)
(* executeNext, from its entry to `await Promise.all(execution)`: the      *)
(* scheduling pass and the dispatch loop run without suspension.           *)
(* transaction.payload is one object shared by every dispatch: `_response` *)
(* is assigned on it in place; only an absent payload gets a fresh {}.     *)
(***************************************************************************)
hasFinished(flow) == flow.state \in {DONE, REVERTED, FAILED}

isPartiallyCompleted(flow) == flow.hasFailedSteps \/ flow.hasSkippedSteps

\* the value handler(action, type, payload) resolves with
ResponseOf(action, type) == <<action, type>>

DataOf(p) ==
  [input |-> p.defined, has_response |-> p.has_response, _response |-> p._response]

\* a dispatch that leaves the status of the step as it was
MarkWaiting_Skip(step) == [ok |-> TRUE, step |-> step]

\* step.changeStatus(TransactionStepStatus.WAITING)
MarkWaiting(step) == changeStatus(step, WAITING)

\* a dispatch that counts an attempt only from the second one on
CountAttempt_AfterFirst(step) ==
  [step EXCEPT !.lastAttempt = "set",
               !.attempts = IF step.lastAttempt = "set" THEN @ + 1 ELSE @]

\* step.lastAttempt = Date.now(); step.attempts++
CountAttempt(step) == [step EXCEPT !.lastAttempt = "set", !.attempts = @ + 1]

\* a dispatch that starts the invoke phase only
StartPhase_InvokeOnly(step, flowState) ==
  IF getStates(step).state = NOT_STARTED /\ ~isCompensating(step)
     /\ flowState = INVOKING
  THEN changeState(step, INVOKING)
  ELSE [ok |-> TRUE, step |-> step]

\* if (curState.state === NOT_STARTED) changeState(COMPENSATING or INVOKING)
StartPhase(step, flowState) ==
  IF getStates(step).state = NOT_STARTED
  THEN IF isCompensating(step) THEN changeState(step, COMPENSATING)
       ELSE IF flowState = INVOKING THEN changeState(step, INVOKING)
       ELSE [ok |-> TRUE, step |-> step]
  ELSE [ok |-> TRUE, step |-> step]

RECURSIVE Dispatch(_, _, _, _, _)
Dispatch(st, nextSteps, i, d, passNo) ==
  IF i > Len(nextSteps) \/ ~st.ok THEN st
  ELSE
    LET id == nextSteps[i]
        flow == st.flow
        step == flow.steps[id]
        curState == getStates(step)
        type == IF isCompensating(step) THEN COMPENSATE ELSE INVOKE
        step1 == CountAttempt(step)
        r1 == StartPhase(step1, flow.state)
        r2 == MarkWaiting(r1.step)
        parent == getPreviousStep(flow, step)
        fresh == [defined |-> FALSE, has_response |-> TRUE,
                  _response |-> parent.response]
        forwarded == [st.payload EXCEPT !.has_response = TRUE,
                                        !._response = parent.response]
        payloadData == IF ~parent.forwardResponse THEN st.payload
                       ELSE IF ~st.payload.defined THEN fresh
                       ELSE forwarded
        payload1 == IF parent.forwardResponse /\ st.payload.defined
                    THEN forwarded ELSE st.payload
        call == [action |-> step.definition.action, type |-> type,
                 attempt |-> r2.step.attempts, data |-> DataOf(payloadData),
                 pass |-> passNo]
        running == [id |-> id, type |-> type, driver |-> d,
                    shared |-> st.payload.defined, data |-> DataOf(payloadData)]
    IN IF ~r1.ok
       THEN [st EXCEPT !.ok = FALSE, !.flow.steps[id] = r1.step]
       ELSE Dispatch([ok |-> TRUE,
                      flow |-> [flow EXCEPT !.steps[id] = r2.step],
                      payload |-> payload1,
                      calls |-> Append(st.calls, call),
                      inflight |-> st.inflight \cup {running}],
                     nextSteps, i + 1, d, passNo)

(***************************************************************************)
(* Scenarios: a step definition, the behaviour of the handler (for which   *)
(* (action, phase) it may throw and for which it may return) and whether   *)
(* beginTransaction is given a payload object.                             *)
(***************************************************************************)
Types == {INVOKE, COMPENSATE}

Scenario(def, throws, returns, hasPayload) ==
  [definition |-> def, handler |-> [throws |-> throws, returns |-> returns],
   payload |-> hasPayload]

Opt(o, key, value) == [o EXCEPT ![key] = value]

\* test '1': firstMethod -> secondMethod, only invoke handlers exist
DefLinear ==
  RootDef(One(Node("A", DefaultOpts, One(Node("B", DefaultOpts, NoNext)))))
ScLinear ==
  Scenario(DefLinear, {"A", "B"} \X {COMPENSATE}, {"A", "B"} \X {INVOKE}, FALSE)

\* test "Should run steps in parallel if 'next' is an array"
DefParallel ==
  RootDef(Arr(<<Node("A", DefaultOpts, NoNext),
                Node("B", DefaultOpts,
                     One(Node("C", DefaultOpts, One(Node("E", DefaultOpts, NoNext))))),
                Node("D", DefaultOpts, One(Node("F", DefaultOpts, NoNext)))>>))
ScParallel ==
  Scenario(DefParallel, {}, {"A", "B", "C", "D", "E", "F"} \X Types, FALSE)

\* test 'Should not execute next steps when a step fails'
DefStopOnFailure ==
  RootDef(Arr(<<Node("one", DefaultOpts, NoNext),
                Node("two", DefaultOpts,
                     One(Node("four", DefaultOpts, One(Node("six", DefaultOpts, NoNext))))),
                Node("three", Opt(DefaultOpts, "maxRetries", 0),
                     One(Node("five", DefaultOpts, NoNext)))>>))
ScStopOnFailure ==
  Scenario(DefStopOnFailure, {<<"three", INVOKE>>},
           ({"one", "two", "three", "four", "five", "six"} \X Types)
              \ {<<"three", INVOKE>>},
           FALSE)

\* test "Should forward step response if flag 'forwardResponse' is set to true"
DefForward ==
  RootDef(One(Node("A", Opt(DefaultOpts, "forwardResponse", "true"),
              One(Node("B", Opt(DefaultOpts, "forwardResponse", "true"),
                  One(Node("C", DefaultOpts, NoNext)))))))
ScForward ==
  Scenario(DefForward, {"A", "B", "C"} \X {COMPENSATE}, {"A", "B", "C"} \X {INVOKE}, TRUE)

\* test "Should continue the exection of next steps without waiting ..."
DefNoWait ==
  RootDef(Arr(<<Node("one", DefaultOpts, One(Node("five", DefaultOpts, NoNext))),
                Node("two", Opt(DefaultOpts, "noWait", TRUE),
                     One(Node("four", DefaultOpts, NoNext))),
                Node("three", Opt(DefaultOpts, "maxRetries", 0), NoNext)>>))
ScNoWait ==
  Scenario(DefNoWait, {<<"three", INVOKE>>},
           ({"one", "two", "three", "four", "five"} \X Types) \ {<<"three", INVOKE>>},
           FALSE)

\* test 'Should retry steps X times when a step fails and compensate steps afterward'
ScRetry ==
  Scenario(DefLinear, {<<"B", INVOKE>>},
           {<<"A", INVOKE>>, <<"A", COMPENSATE>>, <<"B", COMPENSATE>>}, FALSE)

\* test 'Should fail a transaction if any step fails after retrying X time to
\* compensate it': one step, its invoke throws and no compensate handler exists
DefSingle == RootDef(One(Node("A", DefaultOpts, NoNext)))
ScSingleFails == Scenario(DefSingle, {"A"} \X Types, {}, FALSE)

\* test "Should complete a transaction if a failing step has the flag
\* 'continueOnPermanentFailure' set to true", with a step after the failing one
DefContinue ==
  RootDef(One(Node("A", DefaultOpts,
              One(Node("B", Opt(Opt(DefaultOpts, "maxRetries", 1),
                                "continueOnPermanentFailure", TRUE),
                       One(Node("C", DefaultOpts, NoNext)))))))
ScContinue ==
  Scenario(DefContinue, {<<"B", INVOKE>>} \cup ({"A", "B", "C"} \X {COMPENSATE}),
           {<<"A", INVOKE>>, <<"C", INVOKE>>}, FALSE)

\* default retries with a handler that may throw or return on any call
ScLinearAny == Scenario(DefLinear, {"A", "B"} \X Types, {"A", "B"} \X Types, FALSE)
ScSingleAny == Scenario(DefSingle, {"A"} \X Types, {"A"} \X Types, TRUE)

\* a definition that writes the `next` of A as an array and that of B as a
\* single object; every handler returns
DefMixed ==
  RootDef(Arr(<<Node("A", DefaultOpts, Arr(<<Node("C", DefaultOpts, NoNext)>>)),
                Node("B", DefaultOpts, One(Node("D", DefaultOpts, NoNext)))>>))
ScMixed == Scenario(DefMixed, {}, {"A", "B", "C", "D"} \X Types, FALSE)
\* the same definition begun with a payload object
ScMixedPayload == Scenario(DefMixed, {}, {"A", "B", "C", "D"} \X Types, TRUE)

\* a definition that marks its first step async; every handler returns
DefAsync ==
  RootDef(One(Node("A", Opt(DefaultOpts, "async", TRUE),
              One(Node("B", DefaultOpts, NoNext)))))
ScAsync == Scenario(DefAsync, {}, {"A", "B"} \X Types, FALSE)

\* definitions that use an action name twice: on one path, in two siblings,
\* in two branches
DefTwiceOnPath ==
  RootDef(One(Node("A", DefaultOpts,
              One(Node("B", DefaultOpts, One(Node("A", DefaultOpts, NoNext)))))))
DefTwiceSiblings ==
  RootDef(Arr(<<Node("A", DefaultOpts, NoNext), Node("A", DefaultOpts, NoNext)>>))
DefTwiceBranches ==
  RootDef(Arr(<<Node("A", DefaultOpts, One(Node("C", DefaultOpts, NoNext))),
                Node("B", DefaultOpts, One(Node("C", DefaultOpts, NoNext)))>>))
DuplicateScenarios ==
  {Scenario(def, {}, {"A", "B", "C"} \X Types, FALSE) :
     def \in {DefTwiceOnPath, DefTwiceSiblings, DefTwiceBranches}}

TestScenarios ==
  {ScLinear, ScParallel, ScStopOnFailure, ScForward, ScNoWait, ScRetry,
   ScSingleFails, ScContinue, ScLinearAny, ScSingleAny, ScMixed, ScMixedPayload}

(***************************************************************************)
(* The family of small definitions: a shape over the steps A, B, C, every  *)
(* step with maxRetries 0 unless an option says otherwise, at most         *)
(* MaxOptions options set in the whole definition, a payload object and    *)
(* any handler behaviour.                                                  *)
(***************************************************************************)
MaxOptions == 2

OptionKeys ==
  {"maxRetries1", "noWait", "noCompensation", "continueOnPermanentFailure",
   "forwardResponseFalse"}

RECURSIVE SubsetsUpTo(_, _)
SubsetsUpTo(S, k) ==
  IF k = 0 THEN {{}}
  ELSE LET smaller == SubsetsUpTo(S, k - 1)
       IN smaller \cup {T \cup {x} : T \in smaller, x \in S}

OptionSets(names) == SubsetsUpTo(names \X OptionKeys, MaxOptions)

OptsOf(T, n) ==
  [maxRetries |-> IF <<n, "maxRetries1">> \in T THEN 1 ELSE 0,
   noWait |-> <<n, "noWait">> \in T,
   noCompensation |-> <<n, "noCompensation">> \in T,
   continueOnPermanentFailure |-> <<n, "continueOnPermanentFailure">> \in T,
   forwardResponse |-> IF <<n, "forwardResponseFalse">> \in T THEN "false" ELSE "unset",
   async |-> FALSE]

ShapeChain(T) ==
  RootDef(One(Node("A", OptsOf(T, "A"),
              One(Node("B", OptsOf(T, "B"), One(Node("C", OptsOf(T, "C"), NoNext)))))))
ShapeFork(T) ==
  RootDef(Arr(<<Node("A", OptsOf(T, "A"), One(Node("C", OptsOf(T, "C"), NoNext))),
                Node("B", OptsOf(T, "B"), NoNext)>>))
ShapeFan(T) ==
  RootDef(One(Node("A", OptsOf(T, "A"),
              Arr(<<Node("B", OptsOf(T, "B"), NoNext),
                    Node("C", OptsOf(T, "C"), NoNext)>>))))

FamilyDefinitions ==
  {ShapeChain(T) : T \in OptionSets({"A", "B", "C"})}
    \cup {ShapeFork(T) : T \in OptionSets({"A", "B", "C"})}
    \cup {ShapeFan(T) : T \in OptionSets({"A", "B", "C"})}

FamilyScenarios ==
  {Scenario(def, {"A", "B", "C"} \X Types, {"A", "B", "C"} \X Types, TRUE) :
     def \in FamilyDefinitions}

Scenarios == TestScenarios \cup FamilyScenarios \cup {ScAsync} \cup DuplicateScenarios

(***************************************************************************)
(* State                                                                   *)
(***************************************************************************)
VARIABLES
  definition,  \* TransactionOrchestrator.definition
  handler,     \* behaviour of DistributedTransaction.handler
  tx,          \* "none" before beginTransaction, then "begun" or "error"
  flow,        \* DistributedTransaction.flow
  payload,     \* DistributedTransaction.payload
  errors,      \* DistributedTransaction.errors
  pc,          \* per resume() call: "idle", "awaiting", "returned", "rejected"
  inflight,    \* handler promises not yet settled
  calls,       \* the handler calls made so far, in order
  settled,     \* number of handler promises settled per (action, phase, outcome)
  passes       \* number of scheduling passes started by executeNext

vars == <<definition, handler, tx, flow, payload, errors, pc, inflight, calls,
          settled, passes>>

Drivers == {"resume"}

Init ==
  \E sc \in Scenarios :
    /\ definition = sc.definition
    /\ handler = sc.handler
    /\ payload = [defined |-> sc.payload, has_response |-> FALSE,
                  _response |-> NoResponse]
    /\ tx = "none"
    /\ flow = createTransactionFlow(RootDef(NoNext))
    /\ errors = <<>>
    /\ pc = [d \in Drivers |-> "idle"]
    /\ inflight = {}
    /\ calls = <<>>
    /\ settled = <<>>
    /\ passes = 0

Count(f, k) == IF k \in DOMAIN f THEN f[k] ELSE 0
Increment(f, k) == (k :> Count(f, k) + 1) @@ f

(***************************************************************************)
(* Actions                                                                 *)
(***************************************************************************)
beginTransaction ==
  /\ tx = "none"
  /\ LET built == buildSteps(definition)
     IN IF built.error
        THEN tx' = "error" /\ UNCHANGED flow
        ELSE tx' = "begun" /\ flow' = createTransactionFlow(definition)
  /\ UNCHANGED <<definition, handler, payload, errors, pc, inflight, calls,
                 settled, passes>>

\* executeNext up to its await, entered by driver d on flow f
executeNext(d, f) ==
  IF hasFinished(f)
  THEN /\ pc' = [pc EXCEPT ![d] = "returned"]
       /\ flow' = f
       /\ UNCHANGED <<payload, calls, inflight, passes>>
  ELSE LET chk == checkAllSteps(f)
           disp == Dispatch([ok |-> TRUE, flow |-> chk.flow, payload |-> payload,
                             calls |-> calls, inflight |-> inflight],
                            chk.next, 1, d, passes + 1)
       IN IF ~chk.ok
          THEN /\ pc' = [pc EXCEPT ![d] = "rejected"]
               /\ flow' = chk.flow
               /\ passes' = passes + 1
               /\ UNCHANGED <<payload, calls, inflight>>
          ELSE /\ flow' = disp.flow
               /\ payload' = disp.payload
               /\ calls' = disp.calls
               /\ inflight' = disp.inflight
               /\ passes' = passes + 1
               /\ pc' = [pc EXCEPT ![d] = IF ~disp.ok THEN "rejected"
                                          ELSE IF chk.next = <<>> THEN "returned"
                                          ELSE "awaiting"]

\* a resume() that takes the transaction of any orchestrator
resume_AnyModel(d) ==
  /\ tx = "begun"
  /\ pc[d] = "idle"
  /\ IF hasFinished(flow)
     THEN /\ pc' = [pc EXCEPT ![d] = "returned"]
          /\ UNCHANGED <<flow, payload, calls, inflight, passes>>
     ELSE executeNext(d, IF flow.state = NOT_STARTED
                         THEN [flow EXCEPT !.state = INVOKING] ELSE flow)
  /\ UNCHANGED <<definition, handler, tx, errors, settled>>

resume(d) ==
  /\ tx = "begun"
  /\ pc[d] = "idle"
  /\ IF flow.transactionModelId # OrchestratorId
     THEN /\ pc' = [pc EXCEPT ![d] = "rejected"]
          /\ UNCHANGED <<flow, payload, calls, inflight, passes>>
     ELSE IF hasFinished(flow)
     THEN /\ pc' = [pc EXCEPT ![d] = "returned"]
          /\ UNCHANGED <<flow, payload, calls, inflight, passes>>
     ELSE executeNext(d, IF flow.state = NOT_STARTED
                         THEN [flow EXCEPT !.state = INVOKING] ELSE flow)
  /\ UNCHANGED <<definition, handler, tx, errors, settled>>

\* a pass that goes on as soon as one promise of the pass has settled
continueExecution_Early(d) ==
  /\ pc[d] = "awaiting"
  /\ executeNext(d, flow)
  /\ UNCHANGED <<definition, handler, tx, errors, settled>>

\* `await Promise.all(execution)` resolved: every promise of the pass settled
continueExecution(d) ==
  /\ pc[d] = "awaiting"
  /\ \A c \in inflight : c.driver # d
  /\ executeNext(d, flow)
  /\ UNCHANGED <<definition, handler, tx, errors, settled>>

\* the promise of call c settles: .then(setStepSuccess).catch(setStepFailure)
Fail(c, f) ==
  LET r == setStepFailure(f, errors, c.id, MaxRetriesOf(f.steps[c.id]))
  IN /\ flow' = r.flow
     /\ errors' = r.errors
     /\ pc' = IF ~r.ok /\ pc[c.driver] = "awaiting"
              THEN [pc EXCEPT ![c.driver] = "rejected"] ELSE pc

handlerReturns(c) ==
  /\ c \in inflight
  /\ <<flow.steps[c.id].definition.action, c.type>> \in handler.returns
  /\ LET action == flow.steps[c.id].definition.action
         r == setStepSuccess(flow.steps[c.id], ResponseOf(action, c.type))
         f == [flow EXCEPT !.steps[c.id] = r.step]
     IN /\ IF r.ok
           THEN flow' = f /\ UNCHANGED <<errors, pc>>
           ELSE Fail(c, f)
        /\ settled' = Increment(settled, <<action, c.type, "return">>)
  /\ inflight' = inflight \ {c}
  /\ UNCHANGED <<definition, handler, tx, payload, calls, passes>>

handlerThrows(c) ==
  /\ c \in inflight
  /\ <<flow.steps[c.id].definition.action, c.type>> \in handler.throws
  /\ Fail(c, flow)
  /\ settled' = Increment(settled, <<flow.steps[c.id].definition.action, c.type, "throw">>)
  /\ inflight' = inflight \ {c}
  /\ UNCHANGED <<definition, handler, tx, payload, calls, passes>>

Next ==
  \/ beginTransaction
  \/ \E d \in Drivers : resume(d)
  \/ \E d \in Drivers : continueExecution(d)
  \/ \E c \in inflight : handlerReturns(c)
  \/ \E c \in inflight : handlerThrows(c)

Spec == Init /\ [][Next]_vars

(***************************************************************************)
(* Two calls of resume() on the same transaction: the second one may be    *)
(* made while the first one awaits its handlers.  The definitions are the  *)
(* three shapes with at most one option set.                               *)
(***************************************************************************)
ConcurrentDrivers == {"resume", "resumeAgain"}

ConcurrentOptionSets == SubsetsUpTo({"A", "B", "C"} \X OptionKeys, 1)

ConcurrentScenarios ==
  {Scenario(def, {"A", "B", "C"} \X Types, {"A", "B", "C"} \X Types, TRUE) :
     def \in {ShapeChain(T) : T \in ConcurrentOptionSets}
              \cup {ShapeFork(T) : T \in ConcurrentOptionSets}
              \cup {ShapeFan(T) : T \in ConcurrentOptionSets}}

InitConcurrent ==
  \E sc \in ConcurrentScenarios :
    /\ definition = sc.definition
    /\ handler = sc.handler
    /\ payload = [defined |-> sc.payload, has_response |-> FALSE,
                  _response |-> NoResponse]
    /\ tx = "none"
    /\ flow = createTransactionFlow(RootDef(NoNext))
    /\ errors = <<>>
    /\ pc = [d \in ConcurrentDrivers |-> "idle"]
    /\ inflight = {}
    /\ calls = <<>>
    /\ settled = <<>>
    /\ passes = 0

\* beginTransaction of another orchestrator that has the same definition
beginTransactionElsewhere ==
  /\ tx = "none"
  /\ ~buildSteps(definition).error
  /\ tx' = "begun"
  /\ flow' = [createTransactionFlow(definition) EXCEPT
                !.transactionModelId = OtherOrchestratorId]
  /\ UNCHANGED <<definition, handler, payload, errors, pc, inflight, calls,
                 settled, passes>>

NextConcurrent ==
  \/ beginTransaction
  \/ beginTransactionElsewhere
  \/ \E d \in ConcurrentDrivers : resume(d)
  \/ \E d \in ConcurrentDrivers : continueExecution(d)
  \/ \E c \in inflight : handlerReturns(c)
  \/ \E c \in inflight : handlerThrows(c)

SpecConcurrent == InitConcurrent /\ [][NextConcurrent]_vars

(***************************************************************************)
(* Vocabulary of the properties                                            *)
(***************************************************************************)
Steps == Range(flow.keys) \ {<<ROOT_STEP>>}

ActionOf(s) == flow.steps[s].definition.action

NCalls(a, t) ==
  Cardinality({i \in 1..Len(calls) : calls[i].action = a /\ calls[i].type = t})

NSettled(a, t, outcome) == Count(settled, <<a, t, outcome>>)

\* the retry limit of a step as the definition states it
RetryLimit(s) ==
  IF flow.steps[s].definition.maxRetries = Undefined THEN 3
  ELSE flow.steps[s].definition.maxRetries

ActiveType(s) == IF flow.steps[s].stepFailed THEN COMPENSATE ELSE INVOKE

Returned == \E d \in DOMAIN pc : pc[d] = "returned"

\* resume() is over: it returned or it rejected
Ended == \E d \in DOMAIN pc : pc[d] \in {"returned", "rejected"}

(***************************************************************************)
(* C1: the handler is called for a step and a phase at most                *)
(* maxRetries + 1 times (3 + 1 when the step defines no maxRetries); a     *)
(* step in PERMANENT_FAILURE in a phase has been called exactly            *)
(* maxRetries + 1 times in that phase, and that number is its `failures`   *)
(* while the phase is the active one.                                      *)
(***************************************************************************)
C1_RetryCount ==
  \A s \in Steps :
    /\ \A t \in Types : NCalls(ActionOf(s), t) <= RetryLimit(s) + 1
    /\ getStates(flow.steps[s]).status = PERMANENT_FAILURE
         => /\ NCalls(ActionOf(s), ActiveType(s)) = RetryLimit(s) + 1
            /\ flow.steps[s].failures = RetryLimit(s) + 1
    /\ flow.steps[s].invoke.status = PERMANENT_FAILURE
         => NCalls(ActionOf(s), INVOKE) = RetryLimit(s) + 1

\* a step without maxRetries failed permanently in both phases, after four
\* calls in each
C1_Witness ==
  \E s \in Steps :
    /\ flow.steps[s].definition.maxRetries = Undefined
    /\ flow.steps[s].invoke.status = PERMANENT_FAILURE
    /\ flow.steps[s].compensate.status = PERMANENT_FAILURE
    /\ NCalls(ActionOf(s), INVOKE) = 4
    /\ NCalls(ActionOf(s), COMPENSATE) = 4
    /\ flow.steps[s].failures = 4

(***************************************************************************)
(* C2: when a step without continueOnPermanentFailure failed permanently   *)
(* during invoke and no compensate handler threw, resume() ends with the   *)
(* flow REVERTED, the compensate handler called exactly once for the       *)
(* failed step and exactly once for every step whose invoke reached DONE   *)
(* (steps with noCompensation excepted).                                   *)
(***************************************************************************)
FatalInvokeFailure(s) ==
  /\ flow.steps[s].invoke.status = PERMANENT_FAILURE
  /\ ~flow.steps[s].definition.continueOnPermanentFailure

NoCompensateThrow == \A s \in Steps : NSettled(ActionOf(s), COMPENSATE, "throw") = 0

\* C2: after a fatal invoke failure and with no compensate handler throwing,
\* resume() ends REVERTED, the failed step and every DONE step compensated once
C2_RevertedAfterFailure ==
  (Ended /\ NoCompensateThrow /\ \E s \in Steps : FatalInvokeFailure(s))
    => /\ flow.state = REVERTED
       /\ \A s \in Steps :
            FatalInvokeFailure(s) => NCalls(ActionOf(s), COMPENSATE) = 1
       /\ \A s \in Steps :
            (flow.steps[s].invoke.state = DONE /\ ~flow.steps[s].definition.noCompensation)
              => NCalls(ActionOf(s), COMPENSATE) = 1

(***************************************************************************)
(* C3: when no invoke handler throws, once resume() has returned every     *)
(* step has invoke.state DONE and invoke.status OK, the flow is DONE, the  *)
(* handler was called exactly once per step for invoke and never for       *)
(* compensate.                                                             *)
(***************************************************************************)
NoInvokeThrow == \A s \in Steps : NSettled(ActionOf(s), INVOKE, "throw") = 0

\* C3: no invoke handler throws: flow DONE, every step DONE/OK, one invoke
\* call per step, no compensate call
C3_HappyPath ==
  (Returned /\ NoInvokeThrow)
    => /\ flow.state = DONE
       /\ \A s \in Steps :
            /\ flow.steps[s].invoke = [state |-> DONE, status |-> OK]
            /\ NCalls(ActionOf(s), INVOKE) = 1
            /\ NCalls(ActionOf(s), COMPENSATE) = 0

\* the linear flow A -> B ran to the end without a throw
C3_Witness ==
  /\ Returned
  /\ NoInvokeThrow
  /\ definition = DefLinear
  /\ flow.state = DONE
  /\ Len(calls) = 2

(***************************************************************************)
(* C4: with handlers that never throw and no noWait step, the invoke calls *)
(* go through the definition level by level.  The walk lists the steps of  *)
(* a definition in the order they are written, each with its depth and     *)
(* the number of array-valued `next` on its path.                          *)
(***************************************************************************)
RECURSIVE Walk(_, _, _)
RECURSIVE WalkItems(_, _, _, _)
Walk(obj, depth, arrays) ==
  (IF obj.action = "" THEN <<>>
   ELSE <<[action |-> obj.action, depth |-> depth, arrays |-> arrays]>>)
    \o WalkItems(obj.next.items, 1, depth + 1,
                 arrays + (IF obj.next.isArray THEN 1 ELSE 0))
WalkItems(items, i, depth, arrays) ==
  IF i > Len(items) THEN <<>>
  ELSE Walk(items[i], depth, arrays) \o WalkItems(items, i + 1, depth, arrays)

Written == Walk(definition, 0, 0)

RECURSIVE ActionsOf(_)
ActionsOf(entries) ==
  IF entries = <<>> THEN <<>>
  ELSE <<Head(entries).action>> \o ActionsOf(Tail(entries))

AtDepth(d) == SelectSeq(Written, LAMBDA e : e.depth = d)
AtDepthArrays(d, k) == SelectSeq(Written, LAMBDA e : e.depth = d /\ e.arrays = k)

\* ascending depth, equal depth in the order written
RECURSIVE ByDepth(_)
ByDepth(d) ==
  IF d > Len(Written) THEN <<>> ELSE ActionsOf(AtDepth(d)) \o ByDepth(d + 1)

\* ascending depth, equal depth by the number of arrays on the path, equal
\* depth and arrays in the order written
RECURSIVE ByDepthArrays(_, _)
ByDepthArrays(d, k) ==
  IF d > Len(Written) THEN <<>>
  ELSE IF k > Len(Written) THEN ByDepthArrays(d + 1, 0)
  ELSE ActionsOf(AtDepthArrays(d, k)) \o ByDepthArrays(d, k + 1)

CalledActions == [i \in 1..Len(calls) |-> calls[i].action]

CalledActionsTyped == [i \in 1..Len(calls) |-> [action |-> calls[i].action, type |-> calls[i].type]]

IsPrefix(p, q) == Len(p) <= Len(q) /\ SubSeq(q, 1, Len(p)) = p

NoThrow == \A s \in Steps : \A t \in Types : NSettled(ActionOf(s), t, "throw") = 0

NoStepWithNoWait == \A s \in Steps : ~flow.steps[s].definition.noWait

\* C4 as stated: steps of equal depth are called in the order written
C4_DefinitionOrder ==
  (tx = "begun" /\ NoThrow /\ NoStepWithNoWait)
    => /\ IsPrefix(CalledActions, ByDepth(1))
       /\ Returned => CalledActions = ByDepth(1)

\* C4 amended: the calls are all invoke calls, each step once, in ascending
\* depth; steps of equal depth come in the order buildSteps' queue reaches
\* them: fewer array-valued `next` on the path first, then the order written.
\* For next=[A, B{next:C{next:E}}, D{next:F}] that is [A, B, D, C, F, E].
C4_QueueOrder ==
  (tx = "begun" /\ NoThrow /\ NoStepWithNoWait)
    => /\ IsPrefix(CalledActions, ByDepthArrays(1, 0))
       /\ \A i \in 1..Len(calls) : calls[i].type = INVOKE
       /\ Returned => CalledActions = ByDepthArrays(1, 0)
       /\ (Returned /\ definition = DefParallel)
            => CalledActions = <<"A", "B", "D", "C", "F", "E">>

\* next=[A{next:[C]}, B{next:D}] ran to the end: D was called before C
C4_Witness ==
  /\ Returned
  /\ NoThrow
  /\ definition = DefMixed
  /\ CalledActions = <<"A", "B", "D", "C">>

(***************************************************************************)
(* C5: once a step without continueOnPermanentFailure has failed           *)
(* permanently during invoke, no step whose invoke.state is NOT_STARTED is *)
(* handed to the handler for invoke any more, and the flow is no longer    *)
(* INVOKING.  With next=[one, two{next:four{next:six}},                    *)
(* three{maxRetries:0, next:five}] and three throwing, the invoke calls    *)
(* are exactly [one, two, three].                                          *)
(***************************************************************************)
StepOf(a) == CHOOSE s \in Steps : ActionOf(s) = a

InvokeCalls == SelectSeq(CalledActionsTyped, LAMBDA c : c.type = INVOKE)

NewCalls == (Len(calls) + 1)..Len(calls')

C5_NoInvokeAfterFailure ==
  [][(\E s \in Steps : FatalInvokeFailure(s))
       => /\ flow.state # INVOKING
          /\ \A i \in NewCalls :
               calls'[i].type = INVOKE
                 => flow.steps[StepOf(calls'[i].action)].invoke.state # NOT_STARTED]_vars

C5_StopOnFailure ==
  (definition = DefStopOnFailure /\ handler = ScStopOnFailure.handler)
    => /\ IsPrefix(ActionsOf(InvokeCalls), <<"one", "two", "three">>)
       /\ Ended => ActionsOf(InvokeCalls) = <<"one", "two", "three">>

\* C5: after a fatal invoke failure no NOT_STARTED step is invoked; the example
\* calls invoke for one, two, three only
C5_NothingAfterFailure ==
  /\ []C5_StopOnFailure
  /\ C5_NoInvokeAfterFailure

\* the run of the example is over: three failed, four, five and six were
\* never started and never called
C5_Witness ==
  /\ definition = DefStopOnFailure
  /\ handler = ScStopOnFailure.handler
  /\ Returned
  /\ FatalInvokeFailure(StepOf("three"))
  /\ \A a \in {"four", "five", "six"} :
       /\ flow.steps[StepOf(a)].invoke.state = NOT_STARTED
       /\ NCalls(a, INVOKE) = 0
  /\ ActionsOf(InvokeCalls) = <<"one", "two", "three">>

(***************************************************************************)
(* C6: every handler call for a step whose parent is a non-root step with  *)
(* forwardResponse gets the transaction input plus _response = the value   *)
(* the parent's invoke handler returned; every call for a child of the     *)
(* root gets the input with no _response.  In A(forwardResponse) ->        *)
(* B(forwardResponse) -> C: A sees the input, B the input and A's result,  *)
(* C the input and B's result.                                             *)
(***************************************************************************)
ParentOf(s) == getPreviousStep(flow, flow.steps[s])

HandedRight(c) ==
  LET parent == ParentOf(StepOf(c.action))
  IN /\ c.data.input = payload.defined
     /\ parent.id = <<ROOT_STEP>> => ~c.data.has_response
     /\ (parent.id # <<ROOT_STEP>> /\ parent.forwardResponse)
          => /\ c.data.has_response
             /\ c.data._response = ResponseOf(parent.definition.action, INVOKE)

\* C6: every call is handed the payload data the claim describes
C6_ForwardedPayload == \A i \in 1..Len(calls) : HandedRight(calls[i])

\* the same for the calls of the invoke phase of the example alone
C6_ForwardExample ==
  (definition = DefForward /\ handler = ScForward.handler)
    => \A i \in 1..Len(calls) : HandedRight(calls[i])

(***************************************************************************)
(* C7: a step whose parent is a non-root step without noWait is handed to  *)
(* the handler for invoke only when the parent and all the parent's        *)
(* siblings are DONE, FAILED or SKIPPED; the child of a noWait step does   *)
(* not wait.  With next=[one{next:five}, two{noWait, next:four},           *)
(* three{maxRetries:0}] and three throwing, the first pass of resume()     *)
(* calls one, two, three, four in that order and five is never invoked.    *)
(***************************************************************************)
Finished == {DONE, FAILED, SKIPPED}

SiblingsOf(step) == getPreviousStep(flow, step).next

ChildrenWait ==
  \A i \in NewCalls :
    LET parent == ParentOf(StepOf(calls'[i].action))
    IN (calls'[i].type = INVOKE /\ parent.id # <<ROOT_STEP>> /\ ~parent.definition.noWait)
         => \A j \in 1..Len(SiblingsOf(parent)) :
               flow.steps[SiblingsOf(parent)[j]].invoke.state \in Finished

CallsOfPass(n) == SelectSeq(calls, LAMBDA c : c.pass = n)

C7_NoWaitExample ==
  (definition = DefNoWait /\ handler = ScNoWait.handler)
    => /\ passes >= 1
         => /\ ActionsOf(CallsOfPass(1)) = <<"one", "two", "three", "four">>
            /\ \A i \in 1..Len(CallsOfPass(1)) : CallsOfPass(1)[i].type = INVOKE
       /\ NCalls("five", INVOKE) = 0

\* C7: children of steps without noWait wait for the parent and its siblings;
\* the first pass of the example calls one, two, three, four; five is never invoked
C7_NoWait ==
  /\ []C7_NoWaitExample
  /\ [][ChildrenWait]_vars

\* the first pass of the example has just made its calls: four is with the
\* handler while one, two and three are all still INVOKING
C7_Witness ==
  /\ definition = DefNoWait
  /\ handler = ScNoWait.handler
  /\ passes = 1
  /\ \E c \in inflight : c.id = StepOf("four") /\ c.type = INVOKE
  /\ \A a \in {"one", "two", "three"} :
       flow.steps[StepOf(a)].invoke.state = INVOKING

(***************************************************************************)
(* C8: in A -> B(continueOnPermanentFailure, maxRetries 1) -> C with B     *)
(* throwing on every call, resume() returns with A DONE, B FAILED,         *)
(* C SKIPPED, the flow DONE, hasFailedSteps and isPartiallyCompleted true; *)
(* B's invoke handler was called exactly twice, C's handler never, and no  *)
(* compensation was run.                                                   *)
(***************************************************************************)
C8_ContinueOnFailure ==
  (definition = DefContinue /\ handler = ScContinue.handler)
    => /\ \A t \in Types : NCalls("C", t) = 0
       /\ \A a \in {"A", "B", "C"} : NCalls(a, COMPENSATE) = 0
       /\ ~(\E d \in Drivers : pc[d] = "rejected")
       /\ Returned
            => /\ flow.steps[StepOf("A")].invoke.state = DONE
               /\ flow.steps[StepOf("B")].invoke.state = FAILED
               /\ flow.steps[StepOf("C")].invoke.state = SKIPPED
               /\ flow.state = DONE
               /\ flow.hasFailedSteps
               /\ isPartiallyCompleted(flow)
               /\ NCalls("A", INVOKE) = 1
               /\ NCalls("B", INVOKE) = 2

C8_Witness ==
  /\ definition = DefContinue
  /\ handler = ScContinue.handler
  /\ Returned
  /\ flow.state = DONE
  /\ flow.steps[StepOf("B")].invoke = [state |-> FAILED, status |-> PERMANENT_FAILURE]
  /\ flow.steps[StepOf("C")].invoke.state = SKIPPED
  /\ NSettled("B", INVOKE, "throw") = 2

(***************************************************************************)
(* C9: when a step with continueOnPermanentFailure has failed permanently  *)
(* during invoke, every transitive descendant of it has invoke.state       *)
(* SKIPPED, no handler of a descendant is called from then on, and the     *)
(* failure leaves the flow INVOKING.                                       *)
(***************************************************************************)
IgnoredInvokeFailure(f, s) ==
  /\ f.steps[s].invoke.status = PERMANENT_FAILURE
  /\ f.steps[s].definition.continueOnPermanentFailure

\* the ids are the paths from the root: d lies below s
Below(s, d) == Len(d) > Len(s) /\ SubSeq(d, 1, Len(s)) = s

DescendantsSkipped ==
  \A s \in Steps : \A d \in Steps :
    (IgnoredInvokeFailure(flow, s) /\ Below(s, d))
      => flow.steps[d].invoke.state = SKIPPED

DescendantsNotCalled ==
  \A s \in Steps : \A i \in NewCalls :
    IgnoredInvokeFailure(flow, s) => ~Below(s, StepOf(calls'[i].action))

FailureKeepsInvoking ==
  \A s \in Steps :
    (~IgnoredInvokeFailure(flow, s) /\ IgnoredInvokeFailure(flow', s)
       /\ flow.state = INVOKING)
      => flow'.state = INVOKING

\* C9: every descendant of a step whose failure is ignored is SKIPPED and never
\* called, and the flow stays INVOKING
C9_DescendantsSkipped ==
  /\ []DescendantsSkipped
  /\ [][DescendantsNotCalled /\ FailureKeepsInvoking]_vars

(***************************************************************************)
(* C10: when the compensate handler of a step has failed permanently, the  *)
(* transaction finishes FAILED, never REVERTED or DONE, whatever the       *)
(* definition of the step.  A single step whose invoke and compensate      *)
(* always throw ends FAILED after maxRetries + 1 invoke calls.             *)
(***************************************************************************)
CompensateFailed(s) == flow.steps[s].compensate.status = PERMANENT_FAILURE

C10_SingleStepFails ==
  (definition = DefSingle /\ handler = ScSingleFails.handler /\ Ended)
    => /\ flow.state = FAILED
       /\ NCalls("A", INVOKE) = DEFAULT_RETRIES + 1

\* C10: a finished transaction with a permanently failed compensate is FAILED
C10_CompensateFailureIsFatal ==
  /\ (hasFinished(flow) /\ \E s \in Steps : CompensateFailed(s))
       => flow.state = FAILED
  /\ C10_SingleStepFails

(***************************************************************************)
(* C11: a single step A whose invoke handler always throws, with the       *)
(* default maxRetries = 3 and no compensate handler (the call of the       *)
(* missing handler throws as well).                                        *)
(***************************************************************************)
SingleStepRun == definition = DefSingle /\ handler = ScSingleFails.handler

\* C11 as stated: four invoke calls, the flow FAILED, exactly one error
C11_OneError ==
  (SingleStepRun /\ Ended)
    => /\ NCalls("A", INVOKE) = 4
       /\ flow.state = FAILED
       /\ Len(errors) = 1

\* C11 amended: four invoke calls, the flow FAILED, and two errors: one of
\* the invoke phase and one of the compensate phase, which is tried four
\* times as well
C11_TwoErrors ==
  SingleStepRun
    => /\ ~(\E d \in Drivers : pc[d] = "rejected")
       /\ Len(errors) <= 2
       /\ Returned
            => /\ NCalls("A", INVOKE) = 4
               /\ NCalls("A", COMPENSATE) = 4
               /\ flow.state = FAILED
               /\ errors = <<[action |-> "A", handlerType |-> INVOKE],
                             [action |-> "A", handlerType |-> COMPENSATE]>>

C11_Witness ==
  /\ SingleStepRun
  /\ Returned
  /\ flow.state = FAILED
  /\ NSettled("A", INVOKE, "throw") = 4
  /\ Len(errors) = 2

(***************************************************************************)
(* C12: a step whose parent is a non-root step without noWait is handed to *)
(* the handler for invoke only when the parent, and every sibling of the   *)
(* parent, has invoke.state DONE, FAILED or SKIPPED; whatever the order in *)
(* which the handlers complete, no such step has left NOT_STARTED while    *)
(* its parent is NOT_STARTED or INVOKING.                                  *)
(***************************************************************************)
WaitsForParent(s) ==
  /\ ParentOf(s).id # <<ROOT_STEP>>
  /\ ~ParentOf(s).definition.noWait

ParentFinished ==
  \A s \in Steps :
    (WaitsForParent(s) /\ flow.steps[s].invoke.state \notin {NOT_STARTED, SKIPPED})
      => ParentOf(s).invoke.state \in Finished

InvokedAfterParent ==
  \A i \in NewCalls :
    LET s == StepOf(calls'[i].action)
    IN (calls'[i].type = INVOKE /\ WaitsForParent(s))
         => /\ ParentOf(s).invoke.state \in Finished
            /\ flow'.steps[ParentOf(s).id].invoke.state \in Finished
            /\ \A j \in 1..Len(SiblingsOf(ParentOf(s))) :
                  flow.steps[SiblingsOf(ParentOf(s))[j]].invoke.state \in Finished

\* C12: children are invoked after their parent and its siblings finished
C12_ParentBeforeChild ==
  /\ []ParentFinished
  /\ [][InvokedAfterParent]_vars

\* a child is with its invoke handler, its parent is DONE, and a second
\* call of the same pass is still with its handler
C12_Witness ==
  \E c \in inflight :
    /\ c.type = INVOKE
    /\ WaitsForParent(c.id)
    /\ ParentOf(c.id).invoke.state = DONE
    /\ \E c2 \in inflight : c2.id # c.id

(***************************************************************************)
(* C13: the compensate handler of a step is called only when every         *)
(* transitive descendant of the step has compensate state REVERTED, FAILED *)
(* or DORMANT; hence no descendant of a step whose compensate state is     *)
(* REVERTED has compensate state NOT_STARTED or COMPENSATING.              *)
(***************************************************************************)
Compensated == {REVERTED, FAILED, DORMANT}

CompensatedAfterDescendants ==
  \A i \in NewCalls : \A d \in Steps :
    (calls'[i].type = COMPENSATE /\ Below(StepOf(calls'[i].action), d))
      => flow'.steps[d].compensate.state \in Compensated

RevertedAfterDescendants ==
  \A s \in Steps : \A d \in Steps :
    (flow.steps[s].compensate.state = REVERTED /\ Below(s, d))
      => flow.steps[d].compensate.state \notin {NOT_STARTED, COMPENSATING}

\* C13: descendants are compensated before their ancestors
C13_DescendantsFirst ==
  /\ []RevertedAfterDescendants
  /\ [][CompensatedAfterDescendants]_vars

(***************************************************************************)
(* C14: every state and status change the orchestrator attempts on a step  *)
(* is allowed by the transition tables: no changeState or changeStatus     *)
(* throws, in a scheduling pass, in a dispatch or in the handling of a     *)
(* handler's outcome, and so resume() never rejects with such an error.    *)
(***************************************************************************)
PassAllowed(d, f) ==
  LET chk == checkAllSteps(f)
      disp == Dispatch([ok |-> TRUE, flow |-> chk.flow, payload |-> payload,
                        calls |-> calls, inflight |-> inflight],
                       chk.next, 1, d, passes + 1)
  IN hasFinished(f) \/ (chk.ok /\ disp.ok)

OutcomeAllowed(c) ==
  LET action == flow.steps[c.id].definition.action
      success == setStepSuccess(flow.steps[c.id], ResponseOf(action, c.type))
      failure == setStepFailure(flow, errors, c.id, MaxRetriesOf(flow.steps[c.id]))
  IN /\ <<action, c.type>> \in handler.returns => success.ok
     /\ <<action, c.type>> \in handler.throws => failure.ok

\* C14: the next operation, whichever it is, attempts allowed changes only
C14_TransitionsAllowed ==
  /\ \A d \in Drivers : pc[d] # "rejected"
  /\ \A c \in inflight : OutcomeAllowed(c)
  /\ \A d \in Drivers :
       /\ (tx = "begun" /\ pc[d] = "idle")
            => PassAllowed(d, IF flow.state = NOT_STARTED
                              THEN [flow EXCEPT !.state = INVOKING] ELSE flow)
       /\ (pc[d] = "awaiting" /\ \A c \in inflight : c.driver # d)
            => PassAllowed(d, flow)

(***************************************************************************)
(* C15: for every step failures <= maxRetries + 1 (maxRetries is 3 when    *)
(* the step defines none), and the status of the active phase is           *)
(* PERMANENT_FAILURE exactly when failures > maxRetries.                   *)
(***************************************************************************)
\* C15: failures <= maxRetries + 1; PERMANENT_FAILURE iff failures > maxRetries
C15_FailuresBound ==
  \A s \in Steps :
    /\ flow.steps[s].failures <= RetryLimit(s) + 1
    /\ getStates(flow.steps[s]).status = PERMANENT_FAILURE
         <=> flow.steps[s].failures > RetryLimit(s)

\* a step that failed permanently during invoke is now in its compensate
\* phase, has failed there once and is below its limit of one retry
C15_Witness ==
  \E s \in Steps :
    /\ RetryLimit(s) = 1
    /\ flow.steps[s].stepFailed
    /\ flow.steps[s].invoke.status = PERMANENT_FAILURE
    /\ flow.steps[s].compensate.status = TEMPORARY_FAILURE
    /\ flow.steps[s].failures = 1

(***************************************************************************)
(* C16: the flow becomes DONE, REVERTED or FAILED only in a scheduling     *)
(* pass that counts every non-root step as completed (remaining = 0), and  *)
(* in a terminal flow no step is WAITING, awaits a retry or is eligible to *)
(* invoke or to compensate.                                                *)
(***************************************************************************)
\* the flow a pass starts from: resume() moves NOT_STARTED to INVOKING first
PassFlow == IF flow.state = NOT_STARTED THEN [flow EXCEPT !.state = INVOKING] ELSE flow

FinalizedByFullPass ==
  (~hasFinished(flow) /\ hasFinished(flow'))
    => /\ passes' = passes + 1
       /\ checkAllSteps(PassFlow).total = Cardinality(Steps)
       /\ checkAllSteps(PassFlow).completed = Cardinality(Steps)
       /\ checkAllSteps(PassFlow).remaining = 0
       /\ checkAllSteps(PassFlow).next = <<>>

TerminalIsCompleted ==
  hasFinished(flow)
    => /\ inflight = {}
       /\ \A s \in Steps :
            /\ getStates(flow.steps[s]).status \notin {WAITING, TEMPORARY_FAILURE}
            /\ ~canInvoke(flow.steps[s], flow.state)
            /\ ~canCompensate(flow.steps[s], flow.state)

\* C16: terminal flow states come from a pass with nothing remaining
C16_TerminalWhenCompleted ==
  /\ []TerminalIsCompleted
  /\ [][FinalizedByFullPass]_vars

\* a flow of three steps ended REVERTED after a compensation that needed a
\* retry, in a pass later than the third
C16_Witness ==
  /\ Returned
  /\ flow.state = REVERTED
  /\ Cardinality(Steps) = 3
  /\ passes > 3
  /\ \E s \in Steps : NSettled(ActionOf(s), COMPENSATE, "throw") = 1

(***************************************************************************)
(* C17: a finished flow is FAILED when some step ended FAILED without      *)
(* continueOnPermanentFailure, otherwise REVERTED when the active state of *)
(* some step is REVERTED, otherwise DONE.  A flow in which a compensate    *)
(* handler was called never ends DONE; a flow in which no step is FAILED   *)
(* or REVERTED ends DONE.                                                  *)
(***************************************************************************)
ActiveState(s) == getStates(flow.steps[s]).state

FatallyFailed(s) ==
  ActiveState(s) = FAILED /\ ~flow.steps[s].definition.continueOnPermanentFailure

\* C17: a finished flow is FAILED, REVERTED or DONE as the rule of the pass says
C17_Finalization ==
  hasFinished(flow)
    => /\ (\E s \in Steps : FatallyFailed(s)) => flow.state = FAILED
       /\ (/\ \A s \in Steps : ~FatallyFailed(s)
           /\ \E s \in Steps : ActiveState(s) = REVERTED) => flow.state = REVERTED
       /\ (\A s \in Steps : ~FatallyFailed(s) /\ ActiveState(s) # REVERTED)
            => flow.state = DONE
       /\ (\E s \in Steps : NCalls(ActionOf(s), COMPENSATE) > 0) => flow.state # DONE
       /\ (\A s \in Steps : ActiveState(s) \notin {FAILED, REVERTED})
            => flow.state = DONE

\* a flow ended FAILED with one step REVERTED and another one FAILED in its
\* compensate phase
C17_Witness ==
  /\ Returned
  /\ flow.state = FAILED
  /\ \E s \in Steps : ActiveState(s) = REVERTED
  /\ \E s \in Steps : FatallyFailed(s) /\ flow.steps[s].stepFailed

(***************************************************************************)
(* C18: resume() never rejects, whatever the handlers do; the errors list  *)
(* holds exactly one entry per permanent failure of a step in a phase and  *)
(* none for a failure that is retried.                                     *)
(***************************************************************************)
PermanentFailures ==
  {<<ActionOf(s), t>> : s \in Steps, t \in Types} \cap
  ({<<ActionOf(s), INVOKE>> :
      s \in {x \in Steps : flow.steps[x].invoke.status = PERMANENT_FAILURE}} \cup
   {<<ActionOf(s), COMPENSATE>> :
      s \in {x \in Steps : flow.steps[x].compensate.status = PERMANENT_FAILURE}})

ErrorsRecorded ==
  /\ Len(errors) = Cardinality(PermanentFailures)
  /\ \A f \in PermanentFailures :
       \E i \in 1..Len(errors) : errors[i] = [action |-> f[1], handlerType |-> f[2]]

\* C18: no rejection, one error per permanent failure
C18_NoRejection ==
  /\ \A d \in Drivers : pc[d] # "rejected"
  /\ ErrorsRecorded

(***************************************************************************)
(* C19: once resume() has returned, every sibling of a step that is DONE   *)
(* in its invoke phase and has no noWait is DONE, FAILED or SKIPPED in its *)
(* invoke phase.                                                           *)
(***************************************************************************)
Siblings(s, t) == s # t /\ ParentOf(s).id = ParentOf(t).id

\* C19: after resume() returned the siblings of a DONE step have finished
C19_SiblingsFinished ==
  Returned
    => \A s \in Steps : \A t \in Steps :
         (/\ flow.steps[s].invoke.state = DONE
          /\ ~flow.steps[s].definition.noWait
          /\ Siblings(s, t))
           => flow.steps[t].invoke.state \in Finished

\* resume() returned with a DONE step next to a sibling that FAILED
C19_Witness ==
  /\ Returned
  /\ \E s \in Steps : \E t \in Steps :
       /\ Siblings(s, t)
       /\ flow.steps[s].invoke.state = DONE
       /\ ~flow.steps[s].definition.noWait
       /\ flow.steps[t].invoke.state = FAILED

(***************************************************************************)
(* C20: the compensate handler is never called for a step with             *)
(* noCompensation, whatever step failed and whatever the step reached; its *)
(* compensate state stays DORMANT, and it does not block the compensation  *)
(* of its parent: when resume() returns after a fatal invoke failure,      *)
(* every DONE step without noCompensation has been compensated.            *)
(***************************************************************************)
NoCompensation(s) == flow.steps[s].definition.noCompensation

\* C20: a step with noCompensation is never compensated and blocks nobody
C20_NoCompensation ==
  /\ \A s \in Steps :
       NoCompensation(s)
         => /\ NCalls(ActionOf(s), COMPENSATE) = 0
            /\ flow.steps[s].compensate = [state |-> DORMANT, status |-> IDLE]
            /\ ~flow.steps[s].stepFailed
            /\ \A c \in inflight : c.id = s => c.type = INVOKE
  /\ \A s \in Steps :
       (NoCompensation(s) /\ ParentOf(s).id # <<ROOT_STEP>>
          /\ flow.state = COMPENSATING
          /\ \A i \in 1..Len(ParentOf(s).next) : NoCompensation(ParentOf(s).next[i]))
         => canMoveBackward(flow, ParentOf(s))
  /\ (Returned /\ \E s \in Steps : FatalInvokeFailure(s))
       => \A s \in Steps :
            (flow.steps[s].invoke.state = DONE /\ ~NoCompensation(s))
              => flow.steps[s].compensate.state \in {REVERTED, FAILED}

\* resume() returned: a step with noCompensation is DONE and was left alone
\* while its parent has been REVERTED
C20_Witness ==
  /\ Returned
  /\ \E s \in Steps :
       /\ NoCompensation(s)
       /\ flow.steps[s].invoke.state = DONE
       /\ flow.steps[s].compensate.state = DORMANT
       /\ ParentOf(s).id # <<ROOT_STEP>>
       /\ ParentOf(s).compensate.state = REVERTED

(***************************************************************************)
(* C21: also when resume() is called a second time while the first call    *)
(* awaits its handlers, a step never has two handler calls in flight, a    *)
(* step is with a handler exactly while its status is WAITING, a WAITING   *)
(* step is not dispatched, and the handler is called at most               *)
(* maxRetries + 1 times for a step and a phase.                            *)
(***************************************************************************)
InFlight(s) == {c \in inflight : c.id = s}

OneCallInFlight ==
  \A s \in Steps :
    /\ Cardinality(InFlight(s)) <= 1
    /\ getStates(flow.steps[s]).status = WAITING <=> InFlight(s) # {}
    /\ \A c \in InFlight(s) : c.type = ActiveType(s)
    /\ \A t \in Types : NCalls(ActionOf(s), t) <= RetryLimit(s) + 1

WaitingNotDispatched ==
  \A i \in NewCalls :
    /\ getStates(flow.steps[StepOf(calls'[i].action)]).status # WAITING
    /\ InFlight(StepOf(calls'[i].action)) = {}

\* C21: one handler call at a time per step under two calls of resume()
C21_SingleCallPerStep ==
  /\ []OneCallInFlight
  /\ [][WaitingNotDispatched]_vars

\* both calls of resume() await handlers they dispatched themselves, the
\* second one a retry it started while the first one was still waiting
C21_Witness ==
  /\ \A d \in ConcurrentDrivers : pc[d] = "awaiting"
  /\ \E c1 \in inflight : \E c2 \in inflight :
       /\ c1.driver = "resume"
       /\ c2.driver = "resumeAgain"
       /\ flow.steps[c2.id].attempts = 2

(***************************************************************************)
(* C24: a step whose definition has async = true is not completed by the   *)
(* return of its handler: it stays WAITING and no step after it is called  *)
(* until the step is completed from outside.  (Spec has no operation that  *)
(* completes a step from outside.)                                         *)
(***************************************************************************)
C24_AsyncStaysWaiting ==
  \A s \in Steps :
    (flow.steps[s].definition.async /\ NCalls(ActionOf(s), INVOKE) > 0)
      => /\ flow.steps[s].invoke = [state |-> INVOKING, status |-> WAITING]
         /\ \A d \in Steps : Below(s, d) => NCalls(ActionOf(d), INVOKE) = 0
         /\ ~hasFinished(flow)

(***************************************************************************)
(* External completion and cancellation.  LocalWorkflow hands them to the  *)
(* orchestrator of '../transaction': registerStepSuccess and               *)
(* cancelTransaction are written from sections 4.6 and 4.8 of the          *)
(* specification, and so is the return of an async step's handler          *)
(* (section 4.5); scheduling passes and handler settlement are the ones    *)
(* above.  Calls of registerStepSuccess are serialized, and so are calls   *)
(* of cancelTransaction.                                                   *)
(***************************************************************************)
MaxRegister == 2
MaxCancel == 1

ExternalDrivers == {"resume", "register", "cancel"}

NoRetry == Opt(DefaultOpts, "maxRetries", 0)

DefAsyncChain ==
  RootDef(One(Node("A", Opt(NoRetry, "async", TRUE), One(Node("B", NoRetry, NoNext)))))
DefAsyncPair ==
  RootDef(Arr(<<Node("A", NoRetry, NoNext),
                Node("B", Opt(NoRetry, "async", TRUE), NoNext)>>))

ExternalScenarios ==
  {Scenario(def, {"A", "B"} \X Types, {"A", "B"} \X Types, TRUE) :
     def \in {DefAsyncChain, DefAsyncPair}}

InitExternal ==
  \E sc \in ExternalScenarios :
    /\ definition = sc.definition
    /\ handler = sc.handler
    /\ payload = [defined |-> sc.payload, has_response |-> FALSE,
                  _response |-> NoResponse]
    /\ tx = "none"
    /\ flow = createTransactionFlow(RootDef(NoNext))
    /\ errors = <<>>
    /\ pc = [d \in ExternalDrivers |-> "idle"]
    /\ inflight = {}
    /\ calls = <<>>
    /\ settled = <<>>
    /\ passes = 0

IdempotencyKeys == {"A", "B"} \X Types

\* the calls of registerStepSuccess made so far with key k
Applied(k) == Count(settled, <<k[1], k[2], "registered">>)
Duplicates(k) == Count(settled, <<k[1], k[2], "duplicate">>)
Registrations(k) ==
  Applied(k) + Duplicates(k) + Count(settled, <<k[1], k[2], "ignored">>)

RegisterCalls ==
  LET Sum[K \in SUBSET IdempotencyKeys] ==
        IF K = {} THEN 0
        ELSE LET k == CHOOSE x \in K : TRUE IN Registrations(k) + Sum[K \ {k}]
  IN Sum[IdempotencyKeys]

CancelCalls == Count(settled, <<"", "", "cancel">>)

\* the step of key k is WAITING in the phase the key names
AwaitsCompletion_Always(f, k) ==
  \E s \in Range(f.keys) \ {<<ROOT_STEP>>} : f.steps[s].definition.action = k[1]

AwaitsCompletion(f, k) ==
  \E s \in Range(f.keys) \ {<<ROOT_STEP>>} :
    /\ f.steps[s].definition.action = k[1]
    /\ getStates(f.steps[s]).status = WAITING
    /\ isCompensating(f.steps[s]) <=> k[2] = COMPENSATE

registerStepSuccess(k) ==
  /\ tx = "begun"
  /\ pc["register"] # "awaiting"
  /\ RegisterCalls < MaxRegister
  /\ IF AwaitsCompletion(flow, k)
     THEN LET s == CHOOSE x \in Range(flow.keys) \ {<<ROOT_STEP>>} :
                     flow.steps[x].definition.action = k[1]
              r == setStepSuccess(flow.steps[s], ResponseOf(k[1], k[2]))
              f == [flow EXCEPT !.steps[s] = r.step]
          IN /\ IF r.ok
                THEN executeNext("register", f)
                ELSE /\ pc' = [pc EXCEPT !["register"] = "rejected"]
                     /\ flow' = f
                     /\ UNCHANGED <<payload, calls, inflight, passes>>
             /\ settled' = Increment(settled, <<k[1], k[2], "registered">>)
     ELSE /\ settled' = Increment(settled, <<k[1], k[2], IF Applied(k) > 0 THEN "duplicate"
                                                          ELSE "ignored">>)
          /\ UNCHANGED <<flow, payload, calls, inflight, passes, pc>>
  /\ UNCHANGED <<definition, handler, tx, errors>>

Cancellable_Always(f) == TRUE

Cancellable(f) == f.state \in {NOT_STARTED, INVOKING}

cancelTransaction ==
  /\ tx = "begun"
  /\ pc["cancel"] # "awaiting"
  /\ CancelCalls < MaxCancel
  /\ IF Cancellable(flow)
     THEN executeNext("cancel", ("cancelledAt" :> "now")
                                  @@ [flow EXCEPT !.state = WAITING_TO_COMPENSATE])
     ELSE UNCHANGED <<flow, payload, calls, inflight, passes, pc>>
  /\ settled' = Increment(settled, <<"", "", "cancel">>)
  /\ UNCHANGED <<definition, handler, tx, errors>>

IsAsync(c) == flow.steps[c.id].definition.async /\ c.type = INVOKE

\* the handler of an async step returns: the step stays WAITING
handlerReturnsAsync(c) ==
  /\ c \in inflight
  /\ IsAsync(c)
  /\ <<flow.steps[c.id].definition.action, c.type>> \in handler.returns
  /\ settled' = Increment(settled, <<flow.steps[c.id].definition.action, c.type, "return">>)
  /\ inflight' = inflight \ {c}
  /\ UNCHANGED <<definition, handler, tx, flow, payload, errors, pc, calls, passes>>

handlerReturnsSync(c) == ~IsAsync(c) /\ handlerReturns(c)

NextExternal ==
  \/ beginTransaction
  \/ resume("resume")
  \/ \E d \in ExternalDrivers : continueExecution(d)
  \/ \E c \in inflight : handlerReturnsSync(c)
  \/ \E c \in inflight : handlerReturnsAsync(c)
  \/ \E c \in inflight : handlerThrows(c)
  \/ \E k \in IdempotencyKeys : registerStepSuccess(k)
  \/ cancelTransaction

SpecExternal == InitExternal /\ [][NextExternal]_vars

RegisteredOnce == \A k \in IdempotencyKeys : Applied(k) <= 1

DuplicateIgnored ==
  \A k \in IdempotencyKeys :
    (Registrations(k)' > Registrations(k) /\ Applied(k) > 0)
      => /\ ~AwaitsCompletion(flow, k)
         /\ Applied(k)' = Applied(k)
         /\ UNCHANGED <<flow, payload, errors, calls, inflight, pc, passes>>

Cancelled(f) == "cancelledAt" \in DOMAIN f

StepWaiting(f) == \E s \in Steps : getStates(f.steps[s]).status = WAITING

CancelEffect ==
  CancelCalls' > CancelCalls =>
    IF flow.state \in {NOT_STARTED, INVOKING}
    THEN /\ Cancelled(flow')
         /\ flow'.state \in {WAITING_TO_COMPENSATE, COMPENSATING, REVERTED, FAILED, DONE}
         /\ StepWaiting(flow) => flow'.state = WAITING_TO_COMPENSATE
         /\ inflight \subseteq inflight'
         /\ \A s \in Steps : getStates(flow.steps[s]).status = WAITING
                                => flow'.steps[s] = flow.steps[s]
    ELSE UNCHANGED <<flow, payload, errors, calls, inflight, pc, passes>>

ResultApplied ==
  \A c \in inflight \ inflight' :
    (/\ Cancelled(flow)
     /\ ~IsAsync(c)
     /\ getStates(flow.steps[c.id]).status = WAITING
     /\ ActiveType(c.id) = c.type
     /\ NSettled(ActionOf(c.id), c.type, "return")' > NSettled(ActionOf(c.id), c.type, "return"))
      => /\ getStates(flow'.steps[c.id]).status = OK
         /\ getStates(flow'.steps[c.id]).state \in {DONE, REVERTED}

Quiescent == inflight = {} /\ \A d \in DOMAIN pc : pc[d] # "awaiting"

CompletedCompensated ==
  (Cancelled(flow) /\ Quiescent /\ hasFinished(flow))
    => \A s \in Steps :
         flow.steps[s].invoke.state = DONE => flow.steps[s].compensate.state # DORMANT

NamesOnce ==
  \A i \in DOMAIN Written : \A j \in DOMAIN Written :
    i # j => Written[i].action # Written[j].action

NothingStarted ==
  /\ flow = createTransactionFlow(RootDef(NoNext))
  /\ calls = <<>>
  /\ inflight = {}
  /\ passes = 0
  /\ \A d \in DOMAIN pc : pc[d] = "idle"

\* C25: tx is "error" exactly for a definition with a repeated action name,
\* and then nothing was built, called or scheduled
C25_DuplicateActionNames ==
  /\ tx = "error" => ~NamesOnce /\ NothingStarted
  /\ tx = "begun" => NamesOnce /\ Len(flow.keys) = Len(Written) + 1

C25_Witness == tx = "error" /\ definition = DefTwiceBranches

(***************************************************************************)
(* C26: leaving WAITING_TO_COMPENSATE                                      *)
(***************************************************************************)
TemporaryFailures(f) ==
  {s \in Steps : getStates(f.steps[s]).status = TEMPORARY_FAILURE}

WaitingSteps(f) == {s \in Steps : getStates(f.steps[s]).status = WAITING}

NewlyCalled == {StepOf(calls'[i].action) : i \in NewCalls}

\* the flow leaves WAITING_TO_COMPENSATE only with no step to retry or await
LeavesWhenSettled ==
  (flow.state = WAITING_TO_COMPENSATE /\ flow'.state # WAITING_TO_COMPENSATE)
    => /\ TemporaryFailures(flow) = {}
       /\ WaitingSteps(flow) = {}
       /\ passes' = passes + 1
       /\ flow'.state \in {COMPENSATING, REVERTED, FAILED, DONE}

\* a pass on a flow with steps to retry or await calls the steps to retry
\* again, in the invoke phase, and starts no compensation
RetriesFirst ==
  (/\ flow.state = WAITING_TO_COMPENSATE
   /\ passes' = passes + 1
   /\ TemporaryFailures(flow) \cup WaitingSteps(flow) # {})
    => /\ flow'.state = WAITING_TO_COMPENSATE
       /\ NewlyCalled = TemporaryFailures(flow)
       /\ \A i \in NewCalls :
            /\ calls'[i].type = INVOKE
            /\ ~isCompensating(flow'.steps[StepOf(calls'[i].action)])
            /\ flow'.steps[StepOf(calls'[i].action)].attempts
                 = flow.steps[StepOf(calls'[i].action)].attempts + 1

\* once compensation has started no step is left to retry in the invoke phase
NothingToRetry ==
  flow.state = COMPENSATING
    => \A s \in Steps :
         flow.steps[s].invoke.status \in {IDLE, OK, PERMANENT_FAILURE}

\* C26: the flow goes from WAITING_TO_COMPENSATE to COMPENSATING only in a
\* pass with no step to call and no WAITING step; until then the steps in
\* TEMPORARY_FAILURE are called again in the invoke phase
C26_CompensationAfterRetries ==
  []NothingToRetry /\ [][LeavesWhenSettled /\ RetriesFirst]_vars

C26_Witness ==
  /\ flow.state = COMPENSATING
  /\ \E s \in Steps : \E i \in 1..Len(calls) : \E j \in 1..Len(calls) :
       /\ i < j
       /\ calls[i].action = ActionOf(s) /\ calls[i].type = INVOKE
       /\ calls[i].attempt > 1
       /\ calls[j].type = COMPENSATE
       /\ \E t \in Steps : t # s /\ flow.steps[t].invoke.status = PERMANENT_FAILURE
                                 /\ flow.steps[t].attempts = 1

(***************************************************************************)
(* C27: what the switch to COMPENSATING does to the steps                  *)
(***************************************************************************)
ToRevert(f, s) ==
  /\ \/ getStates(f.steps[s]).state = DONE
     \/ getStates(f.steps[s]).status = PERMANENT_FAILURE
  /\ ~f.steps[s].definition.noCompensation

Switched(step) ==
  [step EXCEPT !.stepFailed = TRUE, !.attempts = 0, !.failures = 0,
               !.lastAttempt = "null", !.compensate.state = NOT_STARTED]

\* flagStepsToRevert applied to the flow as it is
FlagFrame ==
  flow.state = WAITING_TO_COMPENSATE =>
    LET flagged == flagStepsToRevert([flow EXCEPT !.state = COMPENSATING])
    IN /\ flagged.ok
       /\ flagged.flow.keys = flow.keys
       /\ \A s \in Steps :
            flagged.flow.steps[s] = IF ToRevert(flow, s) THEN Switched(flow.steps[s])
                                    ELSE flow.steps[s]

BeginCompensationOnce ==
  \A s \in Steps :
    /\ isCompensating(flow.steps[s]) => beginCompensation(flow.steps[s]) = flow.steps[s]
    /\ beginCompensation(beginCompensation(flow.steps[s])) = beginCompensation(flow.steps[s])

\* the pass that leaves WAITING_TO_COMPENSATE: the steps to revert are in the
\* compensate phase, not yet called or called once; the others are untouched
SwitchFrame ==
  (flow.state = WAITING_TO_COMPENSATE /\ flow'.state # WAITING_TO_COMPENSATE) =>
    \A s \in Steps :
      IF ToRevert(flow, s)
      THEN \/ flow'.steps[s] = Switched(flow.steps[s])
           \/ /\ flow'.steps[s] =
                   [Switched(flow.steps[s]) EXCEPT
                      !.attempts = 1, !.lastAttempt = "set",
                      !.compensate = [state |-> COMPENSATING, status |-> WAITING]]
              /\ \E c \in inflight' \ inflight : c.id = s /\ c.type = COMPENSATE
      ELSE flow'.steps[s] = flow.steps[s]

\* C27: on the switch to COMPENSATING exactly the steps whose active state is
\* DONE or whose active status is PERMANENT_FAILURE, noCompensation apart, go
\* to the compensate phase with attempts 0, failures 0, no lastAttempt and
\* compensate.state NOT_STARTED; the other steps stay as they are; and
\* beginCompensation leaves a compensating step as it is
C27_FlaggedSteps ==
  [](FlagFrame /\ BeginCompensationOnce) /\ [][SwitchFrame]_vars

C27_Witness ==
  /\ flow.state = COMPENSATING
  /\ \E s \in Steps : \E t \in Steps : \E u \in Steps :
       /\ flow.steps[s].invoke.state = DONE /\ isCompensating(flow.steps[s])
       /\ flow.steps[t].invoke.status = PERMANENT_FAILURE /\ isCompensating(flow.steps[t])
       /\ flow.steps[t].failures = 0
       /\ ~isCompensating(flow.steps[u])

(***************************************************************************)
(* TransactionStep.changeState and changeStatus on their own: one step in  *)
(* any phase with any pair of state and status, and one call.              *)
(***************************************************************************)
StepStates ==
  {DORMANT, NOT_STARTED, INVOKING, COMPENSATING, DONE, REVERTED, FAILED, SKIPPED}

StepStatuses == {IDLE, OK, WAITING, TEMPORARY_FAILURE, PERMANENT_FAILURE}

TheStep == <<ROOT_STEP, "A">>

InitStep ==
  \E failed \in BOOLEAN :
  \E inv \in [state : StepStates, status : StepStatuses] :
  \E comp \in [state : StepStates, status : StepStatuses] :
    /\ definition = RootDef(One(Node("A", DefaultOpts, NoNext)))
    /\ handler = [throws |-> {}, returns |-> {}]
    /\ payload = [defined |-> FALSE, has_response |-> FALSE, _response |-> NoResponse]
    /\ tx = "begun"
    /\ flow = [createTransactionFlow(definition) EXCEPT
                 !.steps[TheStep] = [@ EXCEPT !.stepFailed = failed,
                                              !.invoke = inv, !.compensate = comp]]
    /\ errors = <<>>
    /\ pc = [d \in Drivers |-> "idle"]
    /\ inflight = {}
    /\ calls = <<>>
    /\ settled = <<>>
    /\ passes = 0

\* one call of changeState or changeStatus; "rejected" stands for the Error
callChangeState(toState) ==
  /\ pc["resume"] = "idle"
  /\ LET r == changeState(flow.steps[TheStep], toState)
     IN /\ flow' = [flow EXCEPT !.steps[TheStep] = r.step]
        /\ pc' = [pc EXCEPT !["resume"] = IF r.ok THEN "returned" ELSE "rejected"]
  /\ calls' = <<[op |-> "changeState", to |-> toState]>>
  /\ UNCHANGED <<definition, handler, tx, payload, errors, inflight, settled, passes>>

callChangeStatus(toStatus) ==
  /\ pc["resume"] = "idle"
  /\ LET r == changeStatus(flow.steps[TheStep], toStatus)
     IN /\ flow' = [flow EXCEPT !.steps[TheStep] = r.step]
        /\ pc' = [pc EXCEPT !["resume"] = IF r.ok THEN "returned" ELSE "rejected"]
  /\ calls' = <<[op |-> "changeStatus", to |-> toStatus]>>
  /\ UNCHANGED <<definition, handler, tx, payload, errors, inflight, settled, passes>>

NextStep ==
  \/ \E toState \in StepStates : callChangeState(toState)
  \/ \E toStatus \in StepStatuses : callChangeStatus(toStatus)

SpecStep == InitStep /\ [][NextStep]_vars

(***************************************************************************)
(* C28: the transition tables                                              *)
(***************************************************************************)
StateTable ==
  {<<DORMANT, NOT_STARTED>>,
   <<NOT_STARTED, INVOKING>>, <<NOT_STARTED, COMPENSATING>>,
   <<NOT_STARTED, FAILED>>, <<NOT_STARTED, SKIPPED>>,
   <<INVOKING, FAILED>>, <<INVOKING, DONE>>,
   <<COMPENSATING, REVERTED>>, <<COMPENSATING, FAILED>>,
   <<DONE, COMPENSATING>>}

StatusTable ==
  {<<WAITING, OK>>, <<WAITING, TEMPORARY_FAILURE>>, <<WAITING, PERMANENT_FAILURE>>,
   <<TEMPORARY_FAILURE, IDLE>>, <<TEMPORARY_FAILURE, PERMANENT_FAILURE>>,
   <<PERMANENT_FAILURE, IDLE>>}

ActivePair(step) == IF step.stepFailed THEN "compensate" ELSE "invoke"

Called(op, to) == calls = <<>> /\ calls' = <<[op |-> op, to |-> to]>>

ChangeStateChecked ==
  \A to \in StepStates :
    Called("changeState", to) =>
      LET step == flow.steps[TheStep]
          cur == step[ActivePair(step)].state
      IN IF cur = to \/ <<cur, to>> \in StateTable
         THEN /\ pc'["resume"] = "returned"
              /\ flow' = [flow EXCEPT !.steps[TheStep][ActivePair(step)].state = to]
         ELSE /\ pc'["resume"] = "rejected"
              /\ flow' = flow

ChangeStatusChecked ==
  \A to \in StepStatuses :
    Called("changeStatus", to) =>
      LET step == flow.steps[TheStep]
          cur == step[ActivePair(step)].status
      IN IF cur = to \/ to = WAITING \/ <<cur, to>> \in StatusTable
         THEN /\ pc'["resume"] = "returned"
              /\ flow' = [flow EXCEPT !.steps[TheStep][ActivePair(step)].status = to]
         ELSE /\ pc'["resume"] = "rejected"
              /\ flow' = flow

\* C28: a change of state or status outside the tables throws and leaves the
\* step as it was; a change inside them writes the active pair and no more
C28_TransitionsChecked == [][ChangeStateChecked /\ ChangeStatusChecked]_vars

C28_Witness ==
  /\ pc["resume"] = "rejected"
  /\ calls = <<[op |-> "changeState", to |-> DONE]>>
  /\ flow.steps[TheStep].stepFailed
  /\ flow.steps[TheStep].compensate.state = COMPENSATING
  /\ flow.steps[TheStep].invoke.state = INVOKING

(***************************************************************************)
(* C29: numbering of the attempts                                          *)
(***************************************************************************)
CallsBefore(i) ==
  {j \in 1..i : calls[j].action = calls[i].action /\ calls[j].type = calls[i].type}

AttemptNumbered ==
  \A i \in 1..Len(calls) :
    /\ calls[i].attempt = Cardinality(CallsBefore(i))
    /\ calls[i].attempt <= RetryLimit(StepOf(calls[i].action)) + 1

AttemptsCounted ==
  \A s \in Steps : flow.steps[s].attempts = NCalls(ActionOf(s), ActiveType(s))

\* C29: the k-th call of a step in a phase carries attempt k, at most
\* maxRetries + 1, the compensate phase counting from 1 again; step.attempts
\* is the number of calls of the step in its current phase
C29_AttemptNumbers == AttemptNumbered /\ AttemptsCounted

C29_Witness ==
  \E s \in Steps : \E i \in 1..Len(calls) : \E j \in 1..Len(calls) :
    /\ calls[i].action = ActionOf(s) /\ calls[j].action = ActionOf(s)
    /\ calls[i].type = INVOKE /\ calls[i].attempt = 2
    /\ calls[j].type = COMPENSATE /\ calls[j].attempt = 2
    /\ flow.steps[s].attempts = 2

(***************************************************************************)
(* C30: resume() comes to an end by returning, and the flow is then DONE,  *)
(* REVERTED or FAILED.  A run of resume() is finite (every pass calls a    *)
(* handler or is the last one, and the calls are bounded by the retries),  *)
(* so the claim fails exactly when the run ends otherwise.                 *)
(***************************************************************************)
C30_ResumeReturnsTerminal ==
  Ended => /\ Returned
           /\ flow.state \in {DONE, REVERTED, FAILED}

(***************************************************************************)
(* C31: the flags of a terminal flow                                       *)
(***************************************************************************)
SomeSkipped == \E s \in Steps : ActiveState(s) = SKIPPED

SomeIgnoredFailure ==
  \E s \in Steps : /\ ActiveState(s) = FAILED
                   /\ flow.steps[s].definition.continueOnPermanentFailure

\* C31: in a terminal flow hasSkippedSteps tells that a step is SKIPPED,
\* hasFailedSteps that a step with continueOnPermanentFailure is FAILED, and
\* isPartiallyCompleted that one of the two holds; all steps DONE, no flag
C31_Flags ==
  hasFinished(flow) =>
    /\ flow.hasSkippedSteps <=> SomeSkipped
    /\ flow.hasFailedSteps <=> SomeIgnoredFailure
    /\ isPartiallyCompleted(flow) <=> (SomeSkipped \/ SomeIgnoredFailure)
    /\ (\A s \in Steps : ActiveState(s) = DONE)
         => ~flow.hasSkippedSteps /\ ~flow.hasFailedSteps

C31_Witness ==
  /\ hasFinished(flow)
  /\ flow.hasSkippedSteps /\ flow.hasFailedSteps
  /\ \E s \in Steps : ActiveState(s) = DONE

(***************************************************************************)
(* C32: the step at the moment its handler is called                       *)
(***************************************************************************)
CalledWhileWaiting ==
  \A i \in NewCalls :
    LET step == flow'.steps[StepOf(calls'[i].action)]
    IN /\ getStates(step).status = WAITING
       /\ getStates(step).state = IF calls'[i].type = INVOKE THEN INVOKING
                                  ELSE COMPENSATING
       /\ calls'[i].type = COMPENSATE <=> step.stepFailed
       /\ calls'[i].type \in Types

\* C32: a step whose handler is called is WAITING, and INVOKING in a call of
\* the invoke phase, COMPENSATING in a call of the compensate phase, which is
\* the phase of the call exactly when stepFailed is set
C32_StateAtCall == [][CalledWhileWaiting]_vars

C32_Witness ==
  \E c \in inflight :
    /\ c.type = COMPENSATE
    /\ flow.steps[c.id].attempts = 2
    /\ flow.steps[c.id].invoke.status = PERMANENT_FAILURE
    /\ flow.steps[c.id].compensate = [state |-> COMPENSATING, status |-> WAITING]

(***************************************************************************)
(* C33: what a call of resume() does first                                 *)
(***************************************************************************)
ResumeCalled(d) == pc[d] = "idle" /\ pc'[d] # "idle"

ResumeChecks ==
  \A d \in DOMAIN pc :
    ResumeCalled(d) =>
      IF flow.transactionModelId # OrchestratorId
      THEN /\ pc'[d] = "rejected"
           /\ UNCHANGED <<flow, errors, payload, calls, inflight, passes>>
      ELSE IF flow.state \in {DONE, REVERTED, FAILED}
      THEN /\ pc'[d] = "returned"
           /\ UNCHANGED <<flow, errors, payload, calls, inflight, passes>>
      ELSE flow.state = NOT_STARTED
             => /\ flow'.state = INVOKING
                /\ NewCalls # {}
                /\ \A i \in NewCalls :
                     /\ calls'[i].type = INVOKE
                     /\ flow'.steps[StepOf(calls'[i].action)].invoke.state = INVOKING

\* C33: resume() throws on the transaction of another model and returns at
\* once on a DONE, REVERTED or FAILED flow, changing nothing and calling no
\* handler; on a NOT_STARTED flow it sets the flow to INVOKING before the pass
C33_ResumeChecks == [][ResumeChecks]_vars

C33_Witness ==
  /\ \A d \in DOMAIN pc : pc[d] = "returned"
  /\ Cardinality(DOMAIN pc) = 2
  /\ flow.state = DONE
  /\ Len(calls) = 3
  /\ passes = 4

(***************************************************************************)
(* C34: the invoke phase is over when the compensation starts              *)
(***************************************************************************)
InvokeCallsFirst ==
  \A i \in 1..Len(calls) : \A j \in 1..Len(calls) :
    (i < j /\ calls[i].type = COMPENSATE) => calls[j].type = COMPENSATE

NoWayBack ==
  /\ flow.state = COMPENSATING
       => flow'.state \in {COMPENSATING, REVERTED, FAILED, DONE}
  /\ flow'.state = COMPENSATING
       => flow.state \in {COMPENSATING, WAITING_TO_COMPENSATE}
  /\ flow'.state = WAITING_TO_COMPENSATE
       => flow.state \in {WAITING_TO_COMPENSATE, INVOKING}

\* C34: with one call of resume() every call of the invoke phase precedes
\* every call of the compensate phase, and a COMPENSATING flow never goes
\* back to WAITING_TO_COMPENSATE or INVOKING
C34_InvokeThenCompensate == []InvokeCallsFirst /\ [][NoWayBack]_vars

C34_Witness ==
  /\ flow.state = REVERTED
  /\ \E i \in 1..Len(calls) : calls[i].type = COMPENSATE /\ calls[i].attempt = 2
  /\ \E s \in Steps : flow.steps[s].compensate = [state |-> FAILED,
                                                  status |-> PERMANENT_FAILURE]

(***************************************************************************)
(* C35: the pair that is not the active one                                *)
(***************************************************************************)
InvokePairKept ==
  \A s \in Steps :
    flow.steps[s].stepFailed
      => /\ flow.steps[s].invoke \in {[state |-> DONE, status |-> OK],
                                      [state |-> FAILED, status |-> PERMANENT_FAILURE]}
         /\ flow.steps[s].compensate.state # DORMANT

CompensatePairDormant ==
  \A s \in Steps :
    ~flow.steps[s].stepFailed
      => flow.steps[s].compensate = [state |-> DORMANT, status |-> IDLE]

InvokePairFrozen ==
  \A s \in Steps :
    /\ s \in DOMAIN flow'.steps
    /\ flow.steps[s].stepFailed
         => /\ flow'.steps[s].stepFailed
            /\ flow'.steps[s].invoke = flow.steps[s].invoke
    /\ (~flow.steps[s].stepFailed /\ flow'.steps[s].stepFailed)
         => flow'.steps[s].invoke = flow.steps[s].invoke

\* C35: a step that has begun compensation keeps its invoke pair, DONE/OK or
\* FAILED/PERMANENT_FAILURE, to the end; a step that has not has the
\* compensate pair DORMANT/IDLE
C35_InactivePair ==
  [](InvokePairKept /\ CompensatePairDormant) /\ [][InvokePairFrozen]_vars

C35_Witness ==
  /\ flow.state = REVERTED
  /\ \E s \in Steps : /\ flow.steps[s].invoke = [state |-> FAILED,
                                                 status |-> PERMANENT_FAILURE]
                      /\ flow.steps[s].compensate = [state |-> REVERTED, status |-> OK]
  /\ \E s \in Steps : /\ flow.steps[s].invoke = [state |-> DONE, status |-> OK]
                      /\ flow.steps[s].compensate = [state |-> REVERTED, status |-> OK]
  /\ \E s \in Steps : ~flow.steps[s].stepFailed

(***************************************************************************)
(* C36: state and status of a pair agree                                   *)
(***************************************************************************)
PairAgrees(pair, running) ==
  /\ pair.status = OK <=> pair.state \in {DONE, REVERTED}
  /\ pair.status = PERMANENT_FAILURE <=> pair.state = FAILED
  /\ pair.state \in {NOT_STARTED, DORMANT, SKIPPED} => pair.status = IDLE
  /\ pair.status \in {WAITING, TEMPORARY_FAILURE} => pair.state = running

\* C36: in both pairs of every step OK goes with DONE or REVERTED,
\* PERMANENT_FAILURE with FAILED, IDLE with NOT_STARTED, DORMANT and SKIPPED,
\* WAITING and TEMPORARY_FAILURE with INVOKING or COMPENSATING
C36_PairsAgree ==
  \A s \in Steps :
    /\ PairAgrees(flow.steps[s].invoke, INVOKING)
    /\ PairAgrees(flow.steps[s].compensate, COMPENSATING)

C36_Witness ==
  /\ flow.state = COMPENSATING
  /\ \E s \in Steps : flow.steps[s].invoke = [state |-> SKIPPED, status |-> IDLE]
  /\ \E s \in Steps : flow.steps[s].compensate = [state |-> COMPENSATING,
                                                  status |-> TEMPORARY_FAILURE]
  /\ \E s \in Steps : flow.steps[s].invoke = [state |-> FAILED,
                                              status |-> PERMANENT_FAILURE]

(***************************************************************************)
(* C37: which steps are compensated                                        *)
(***************************************************************************)
CompensatedAfterInvoke ==
  \A j \in 1..Len(calls) :
    calls[j].type = COMPENSATE =>
      /\ \E i \in 1..(j - 1) :
           calls[i].action = calls[j].action /\ calls[i].type = INVOKE
      /\ flow.steps[StepOf(calls[j].action)].invoke
           \in {[state |-> DONE, status |-> OK],
                [state |-> FAILED, status |-> PERMANENT_FAILURE]}

NotRun(s) == flow.steps[s].invoke.state \in {NOT_STARTED, SKIPPED}

NotRunNotCompensated ==
  \A s \in Steps :
    NotRun(s) => /\ ~flow.steps[s].stepFailed
                 /\ NCalls(ActionOf(s), COMPENSATE) = 0

\* a pass of the compensation has nothing to do for a step that did not run
NotRunIsCompleted ==
  flow.state = COMPENSATING =>
    LET pass == checkAllSteps(flow)
        notRun == {s \in Steps : NotRun(s)}
    IN /\ \A s \in notRun :
            /\ s \notin Range(pass.next)
            /\ getStates(flow.steps[s]).status # WAITING
            /\ ~canCompensate(flow.steps[s], pass.flow.state)
       /\ pass.completed
            >= Cardinality({s \in notRun : canContinue(flow, flow.steps[s])})

NothingForwarded(c) ==
  LET parent == ParentOf(StepOf(c.action))
  IN (parent.id # <<ROOT_STEP>> /\ ~parent.forwardResponse)
       => /\ c.data.input = payload.defined
          /\ ~c.data.has_response

ResponseNotStored ==
  \A s \in Steps : ~flow.steps[s].forwardResponse => flow.steps[s].response = NoResponse

\* C38: the child of a step with forwardResponse = false is handed the input
\* of the transaction with no _response, whatever was forwarded before, and
\* such a step never stores the response of its handler
C38_NoResponseForwarded ==
  /\ \A i \in 1..Len(calls) : NothingForwarded(calls[i])
  /\ ResponseNotStored

(***************************************************************************)
(* C39: the payload of a running handler                                   *)
(***************************************************************************)
\* the data a running handler reads now: the transaction's own payload
\* object when that is what it was handed, its own object otherwise
HeldData(r) == IF r.shared THEN DataOf(payload) ELSE r.data

HoldsOwnResponse(r) ==
  LET parent == ParentOf(r.id)
  IN parent.forwardResponse
       => /\ HeldData(r).has_response
          /\ HeldData(r)._response = parent.response

\* the data is still what the handler was handed when it was called
HeldAsHanded == \A r \in inflight : HeldData(r) = r.data

HeldDataKept ==
  \A r \in inflight \cap inflight' : HeldData(r)' = HeldData(r)

StoredInputKept == (tx # "none") => payload' = payload

\* C39: a running handler whose parent forwards holds its own parent's
\* response as _response, and no step taken while it runs changes the data it
\* holds or the stored input of the transaction
C39_PayloadIsolation ==
  /\ [](\A r \in inflight : HoldsOwnResponse(r) /\ HeldAsHanded)
  /\ [][HeldDataKept /\ StoredInputKept]_vars

(***************************************************************************)
(* C40: the order in which the handlers of one pass settle                 *)
(***************************************************************************)
\* .then(setStepSuccess).catch(setStepFailure) of call c, as a function of
\* the transaction and of the outcome of the handler
Settle(st, c, outcome) ==
  LET action == st.flow.steps[c.id].definition.action
      success == setStepSuccess(st.flow.steps[c.id], ResponseOf(action, c.type))
      stored == [st.flow EXCEPT !.steps[c.id] = success.step]
      caught == IF outcome = "return" THEN stored ELSE st.flow
      failure == setStepFailure(caught, st.errors, c.id, MaxRetriesOf(caught.steps[c.id]))
  IN IF outcome = "return" /\ success.ok
     THEN [st EXCEPT !.flow = stored]
     ELSE [flow |-> failure.flow,
           errors |-> failure.errors,
           pc |-> IF ~failure.ok /\ st.pc[c.driver] = "awaiting"
                  THEN [st.pc EXCEPT ![c.driver] = "rejected"] ELSE st.pc]

Outcomes(c) ==
  LET key == <<flow.steps[c.id].definition.action, c.type>>
  IN {o \in {"return", "throw"} :
        \/ o = "return" /\ key \in handler.returns
        \/ o = "throw" /\ key \in handler.throws}

\* what the claim compares: the flow with its flags and every step, and
\* whether resume() goes on; the order of the logged errors is left out
Outcome(st) == [flow |-> st.flow, pc |-> st.pc]

Now == [flow |-> flow, errors |-> errors, pc |-> pc]

SettleOrderFree(c1, c2) ==
  \A o1 \in Outcomes(c1), o2 \in Outcomes(c2) :
    Outcome(Settle(Settle(Now, c1, o1), c2, o2))
      = Outcome(Settle(Settle(Now, c2, o2), c1, o1))

\* the settle actions are the function Settle
SettleIsTheAction ==
  \A c \in inflight \ inflight' :
    \E o \in Outcomes(c) :
      LET after == Settle(Now, c, o)
      IN flow' = after.flow /\ errors' = after.errors /\ pc' = after.pc

\* C40: with the outcome of every handler call fixed, two handlers in flight
\* may settle in either order: the flow, its flags, every step's pairs and
\* the state of resume() come out the same, hence so do the later passes
\* and their handler calls
C40_SettleOrder ==
  /\ [](\A c1, c2 \in inflight : c1 # c2 => SettleOrderFree(c1, c2))
  /\ [][SettleIsTheAction]_vars

\* a pass called two handlers, one threw and one returned, and the
\* transaction went on to its end
C40_Witness ==
  /\ flow.state = REVERTED
  /\ inflight = {}
  /\ \E i, j \in 1..Len(calls) :
       /\ i # j
       /\ calls[i].pass = calls[j].pass
       /\ calls[i].type = INVOKE /\ calls[j].type = INVOKE
       /\ NSettled(calls[i].action, INVOKE, "throw") = 1
       /\ NSettled(calls[i].action, INVOKE, "return") = 0
       /\ NSettled(calls[j].action, INVOKE, "return") = 1
       /\ NSettled(calls[j].action, INVOKE, "throw") = 0

=============================================================================
